---------------------------- MODULE Spec2Model ----------------------------
(***************************************************************************)
(* A state-machine model of parts of TmLibrary:                            *)
(*   - BgEngine (src/src/tmlib/engine.py): the proxy queue, the perform    *)
(*     cycle of the background thread and the per-cycle read cache;        *)
(*   - WorkflowDescription / WorkflowStageDescription /                    *)
(*     WorkflowStepDescription (src/tmlib/workflow/description.py);        *)
(*   - ImageExtractor.create_batches (src/tmlib/workflow/imextract/api.py);*)
(*   - ChannelLayerTile.add (src/tmlib/models/tile.py);                    *)
(*   - ChannelImageFile.put and get (src/tmlib/models/file.py);            *)
(*   - Plate.status (src/src/tmlib/models/plate.py);                       *)
(*   - map_logging_verbosity (src/tmlib/logging_utils.py);                 *)
(*   - UserConfiguration (src/src/tmlib/cfg.py);                           *)
(*   - BgEngine.task_data, task_and_children_data, all_tasks_data          *)
(*     (src/src/tmlib/engine.py).                                          *)
(* Each component has its own specification over the shared variables.     *)
(***************************************************************************)
EXTENDS Integers, Sequences, FiniteSets

(***************************************************************************)
(* Bounds of the model.                                                    *)
(***************************************************************************)
\* total number of proxy calls issued in one behaviour
MaxOps == 2
\* number of perform cycles the scheduler fires in one behaviour
MaxCycles == 2
\* largest reading of the wall clock
MaxTime == 2
\* number of cached reads started in one behaviour
MaxReads == 3
\* number of image-file-mapping records in the table
MaxMappings == 4
\* number of sites the mapping records may belong to
MaxSites == 3
\* largest args.batch_size
MaxBatchSize == 2
\* number of channel image files of the experiment
MaxFiles == 3
\* number of ChannelLayerTile.add calls in one behaviour
MaxAdds == 2
\* largest number of planes of an image
MaxPlanes == 11
\* number of acquisitions of a plate
MaxAcquisitions == 4
\* largest verbosity given, and the negative of the smallest
MaxVerbosity == 5
\* number of verbosity mappings and level lookups in one behaviour
MaxLogCalls == 2
\* number of dicts the informational methods build in one behaviour before
\* the last call
MaxDicts == 3
\* number of ChannelImageFile.put calls in one behaviour
MaxPuts == 3

VARIABLES
    \* ---- BgEngine (engine.py) ----
    _q,                   \* self._q: the pending queue
    _q_locked,            \* self._q_locked: "free" or the thread holding it
    running,              \* self.running: "unset" until start()/stop() set it
    _progress_last_run,   \* self._progress_last_run
    _cache_last_updated,  \* self._cache_last_updated, <<>> while the attribute is unset
    _cache_value,         \* self._cache_value
    _engine,              \* the wrapped gc3libs Engine, as far as BgEngine sees it
    pc,                   \* position of the background thread inside _perform
    q,                    \* the local q of _perform
    call,                 \* per caller thread: the BgEngine method it is inside
    ret,                  \* per caller thread: how its last call ended
    rd,                   \* per caller thread: locals of the cached-read wrapper
    now,                  \* time.time()
    \* history of the run, read only by the properties
    issued,               \* the proxy methods called, in the order they appended
    cycles,               \* number of drains (perform cycles) started
    drained,              \* Len(issued) at the latest drain
    failedAt,             \* place in the call log of the first call that failed
                          \* in the current cycle, 0 if none did
    ncomputed,            \* number of times the body of a cached read ran
    nreads,               \* number of cached reads started
    nstamps,              \* number of times _perform refreshed _progress_last_run
    hist,                 \* the latest two cached reads that returned
    \* ---- workflow description (workflow/description.py) ----
    dependencies,         \* the declaration get_workflow_dependencies(type) returns
    stages,               \* WorkflowDescription.stages
    draft,                \* a WorkflowStageDescription not (yet) added to the
                          \* workflow: <<>> or <<stage>>
    raised,               \* the exception the latest call raised, "ok" if none
    copy,                 \* what the latest call built from a to_dict() result:
                          \* <<>> when it built nothing of the kind
    lastcall,             \* history: the latest call and what it was applied to
    \* ---- ImageExtractor.create_batches (workflow/imextract/api.py) ----
    mappings,             \* the ImageFileMapping table: site_id of each record id
    cb_args,              \* args: the step arguments batch_size, mip, delete
    file_mappings_per_site, \* the values of the dict of that name, in dict order
    batches,              \* the batches the loop has not gone through yet
    job_count,            \* job_count
    job_descriptions,     \* job_descriptions: the 'run' list and 'collect'
    cb_pc,                \* position inside create_batches
    \* ---- ChannelLayerTile (models/tile.py) ----
    channel_layer_tiles,  \* the rows of the table channel_layer_tiles
    tile_raised,          \* the exception the latest add raised, "ok" if none
    tile_calls,           \* history: the latest two add calls, each with the
                          \* table it was made on
    nadds,                 \* number of add calls made
    \* ---- ChannelImageFile (models/file.py) ----
    datasets,             \* the datasets of the file at self.location, in the
                          \* order they were created: name and data of each
    _n_planes,            \* self._n_planes
    file_raised,          \* the exception the latest put or get raised, "ok" if none
    got,                  \* the array of the image the latest get returned:
                          \* <<>> or <<array>>
    file_calls,           \* history: the latest two calls, each with the
                          \* datasets it was made on
    nputs,                 \* number of put calls made
    \* ---- Plate.status (models/plate.py) ----
    acquisitions,         \* the upload_status of each acquisition of the plate
    plate_status,          \* what the latest read of plate.status returned for
                          \* these acquisitions: <<>> or <<status>>
    \* ---- logging_utils ----
    log_calls,             \* history: the calls of map_logging_verbosity and the
                          \* lookups in LEVELS_TO_VERBOSITY, with what each gave
    \* ---- UserConfiguration (cfg.py) ----
    cfg,                  \* the UserConfiguration object: <<>> or <<object>>
    cfg_settings,         \* the settings the object was constructed from
    cfg_raised,           \* the exception the latest call raised, "ok" if none
    cfg_iter,              \* what the latest iteration of the object yielded:
                          \* <<>> or <<items and the exception that ended it>>
    \* ---- BgEngine informational methods (engine.py) ----
    task_attrs,           \* the attributes of each task object
    managed,              \* the tasks iter_tasks yields, in its order
    heap,                 \* the dicts the informational methods have built;
                          \* a dict is referred to by its index
    dcache,               \* _cache_value and _cache_last_updated, <<>> while
                          \* the attributes do not exist
    dclock,               \* time.time() and _progress_last_run
    dcalls,                \* history: the latest calls, each with the dict it
                          \* returned as it was at the return
    \* ---- IllumstatsCalculator.create_batches (corilla/api.py) ----
    cor_db,               \* the rows of cycles, channels and channel image
                          \* files, in the order the queries return them
    cor_count,            \* count
    cor_jobs,             \* job_descriptions["run"] of the calculator
    cor_pc                \* the cycle and channel the loops are at, "done"
                          \* after the return, "-" while not in use

engineVars == <<_q, _q_locked, running, _progress_last_run, _cache_last_updated,
                _cache_value, _engine, pc, q, call, ret, rd, now,
                issued, cycles, drained, failedAt, ncomputed, nreads, nstamps, hist>>

workflowVars == <<dependencies, stages, draft, raised, copy, lastcall>>

batchVars == <<mappings, cb_args, file_mappings_per_site, batches, job_count,
               job_descriptions, cb_pc>>

tilesVars == <<channel_layer_tiles, tile_raised, tile_calls, nadds>>

filesVars == <<datasets, _n_planes, file_raised, got, file_calls, nputs>>

platesVars == <<acquisitions, plate_status>>

loggingVars == <<log_calls>>

configVars == <<cfg, cfg_settings, cfg_raised, cfg_iter>>

dataVars == <<task_attrs, managed, heap, dcache, dclock, dcalls>>

corillaVars == <<cor_db, cor_count, cor_jobs, cor_pc>>

vars == <<engineVars, workflowVars, batchVars, tilesVars, filesVars, platesVars, loggingVars, configVars, dataVars, corillaVars>>

\* what an action of one component leaves alone
outsideEngine == <<workflowVars, batchVars, tilesVars, filesVars, platesVars, loggingVars, configVars, dataVars, corillaVars>>

outsideWorkflow == <<engineVars, batchVars, tilesVars, filesVars, platesVars, loggingVars, configVars, dataVars, corillaVars>>

outsideBatches == <<engineVars, workflowVars, tilesVars, filesVars, platesVars, loggingVars, configVars, dataVars, corillaVars>>

outsideTiles == <<engineVars, workflowVars, batchVars, filesVars, platesVars, loggingVars, configVars, dataVars, corillaVars>>

outsideFiles == <<engineVars, workflowVars, batchVars, tilesVars, platesVars, loggingVars, configVars, dataVars, corillaVars>>

outsidePlates == <<engineVars, workflowVars, batchVars, tilesVars, filesVars, loggingVars, configVars, dataVars, corillaVars>>

outsideLogging == <<engineVars, workflowVars, batchVars, tilesVars, filesVars, platesVars, configVars, dataVars, corillaVars>>

outsideConfig == <<engineVars, workflowVars, batchVars, tilesVars, filesVars, platesVars, loggingVars, dataVars, corillaVars>>

outsideData == <<engineVars, workflowVars, batchVars, tilesVars, filesVars, platesVars, loggingVars, configVars, corillaVars>>

outsideCorilla == <<engineVars, workflowVars, batchVars, tilesVars, filesVars, platesVars, loggingVars, configVars, dataVars>>

(***************************************************************************)
(* BgEngine                                                                *)
(***************************************************************************)
\* the mutating proxy methods of BgEngine, engine.py 238-305
ProxyOps == {"add", "close", "fetch_output", "free", "get_resources",
             "get_backend", "kill", "peek", "remove", "select_resource",
             "submit", "update_job_state"}

\* the threads that call into the BgEngine
Callers == {"c1", "c2"}

\* the tasks a cached read is asked about
Tasks == {"t1", "t2"}

\* the bound method a proxy appends: self._engine.<name>
BoundMethod(name) == name

\* the (fn, args, kwargs) tuple a proxy appends; every call has arguments of
\* its own, told apart by id
QueueEntry(name) == [fn |-> BoundMethod(name), id |-> Len(issued) + 1]

\* no call on a workflow description yet
NoCall == [op |-> "-", name |-> "-", stage |-> "-", at |-> 0, pre |-> <<>>]

\* no workflow description is being built
IdleWorkflow ==
    /\ dependencies = <<>>
    /\ stages = <<>>
    /\ draft = <<>>
    /\ raised = "ok"
    /\ copy = <<>>
    /\ lastcall = NoCall

\* create_batches is not being called
IdleBatches ==
    /\ mappings = <<>>
    /\ cb_args = <<>>
    /\ file_mappings_per_site = <<>>
    /\ batches = <<>>
    /\ job_count = 0
    /\ job_descriptions = <<>>
    /\ cb_pc = "-"

\* no tile is being added
IdleTiles ==
    /\ channel_layer_tiles = {}
    /\ tile_raised = "ok"
    /\ tile_calls = <<>>
    /\ nadds = 0

\* no channel image file is in use
IdleFiles ==
    /\ datasets = <<>>
    /\ _n_planes = 0
    /\ file_raised = "ok"
    /\ got = <<>>
    /\ file_calls = <<>>
    /\ nputs = 0

\* no plate is in use
IdlePlates ==
    /\ acquisitions = <<>>
    /\ plate_status = <<>>

\* no verbosity has been mapped
IdleLogging ==
    log_calls = <<>>

\* no user configuration is in use
IdleConfig ==
    /\ cfg = <<>>
    /\ cfg_settings = <<>>
    /\ cfg_raised = "ok"
    /\ cfg_iter = <<>>

\* no informational method is in use
IdleData ==
    /\ task_attrs = <<>>
    /\ managed = <<>>
    /\ heap = <<>>
    /\ dcache = <<>>
    /\ dclock = [now |-> 1, last_run |-> 0]
    /\ dcalls = <<>>

\* no illumination statistics are being batched
IdleCorilla ==
    /\ cor_db = <<>>
    /\ cor_count = 0
    /\ cor_jobs = <<>>
    /\ cor_pc = [at |-> "-", i |-> 0, j |-> 0]

\* a caller that has not returned from any call yet
NoReturn == [k |-> "-"]

\* a call that returned None
ReturnNone == [k |-> "None"]

\* the locals of a caller that is in no cached read
NoRead == [fn |-> "-", task |-> "-", val |-> <<>>, enter |-> 0, plr |-> 0, fenter |-> 0]

InitEngine ==
    /\ _q = <<>>
    /\ _q_locked = "free"
    /\ running = "unset"
    /\ _progress_last_run = 0
    /\ _cache_last_updated = <<>>
    /\ _cache_value = <<>>
    /\ _engine = [calls |-> <<>>, progress_calls |-> 0, progress_raised |-> 0]
    /\ pc = "idle"
    /\ q = <<>>
    /\ call = [c \in Callers |-> "idle"]
    /\ ret = [c \in Callers |-> NoReturn]
    /\ rd = [c \in Callers |-> NoRead]
    /\ now = 1
    /\ issued = <<>>
    /\ cycles = 0
    /\ drained = 0
    /\ failedAt = 0
    /\ ncomputed = 0
    /\ nreads = 0
    /\ nstamps = 0
    /\ hist = <<>>

\* BgEngine.start
Start ==
    /\ UNCHANGED outsideEngine
    /\ running # "True"
    /\ running' = "True"
    /\ UNCHANGED <<_q, _q_locked, _progress_last_run, _cache_last_updated,
                   _cache_value, _engine, pc, q, call, ret, rd, now,
                   issued, cycles, drained, failedAt, ncomputed, nreads, nstamps, hist>>

\* time passes
Tick ==
    /\ UNCHANGED outsideEngine
    /\ now < MaxTime
    /\ now' = now + 1
    /\ UNCHANGED <<_q, _q_locked, running, _progress_last_run, _cache_last_updated,
                   _cache_value, _engine, pc, q, call, ret, rd,
                   issued, cycles, drained, failedAt, ncomputed, nreads, nstamps, hist>>

\* Proxy with the slip of making the call on the wrapped engine at once, in
\* the caller's thread, besides queueing it
ProxySync(c, name) ==
    /\ UNCHANGED outsideEngine
    /\ call[c] = "idle"
    /\ Len(issued) < MaxOps
    /\ _q_locked = "free"
    /\ _q' = Append(_q, QueueEntry(name))
    /\ _engine' = [_engine EXCEPT !.calls = Append(@, QueueEntry(name))]
    /\ issued' = Append(issued, [fn |-> name, id |-> Len(issued) + 1])
    /\ ret' = [ret EXCEPT ![c] = ReturnNone]
    /\ UNCHANGED <<_q_locked, running, _progress_last_run, _cache_last_updated,
                   _cache_value, pc, q, call, rd, now,
                   cycles, drained, failedAt, ncomputed, nreads, nstamps, hist>>

\* a mutating proxy method, engine.py 238-305:
\*   with self._q_locked: self._q.append((self._engine.<name>, args, kwargs))
\* The caller waits while another thread holds the lock, and gets None back.
Proxy(c, name) ==
    /\ UNCHANGED outsideEngine
    /\ call[c] = "idle"
    /\ Len(issued) < MaxOps
    /\ _q_locked = "free"
    /\ _q' = Append(_q, QueueEntry(name))
    /\ issued' = Append(issued, [fn |-> name, id |-> Len(issued) + 1])
    /\ ret' = [ret EXCEPT ![c] = ReturnNone]
    /\ UNCHANGED <<_q_locked, running, _progress_last_run, _cache_last_updated,
                   _cache_value, _engine, pc, q, call, rd, now,
                   cycles, drained, failedAt, ncomputed, nreads, nstamps, hist>>

\* the scheduler fires _perform, which takes the queue lock
PerformStart ==
    /\ UNCHANGED outsideEngine
    /\ running = "True"
    /\ pc = "idle"
    /\ cycles < MaxCycles
    /\ _q_locked = "free"
    /\ _q_locked' = "bg"
    /\ pc' = "drain"
    /\ UNCHANGED <<_q, running, _progress_last_run, _cache_last_updated,
                   _cache_value, _engine, q, call, ret, rd, now,
                   issued, cycles, drained, failedAt, ncomputed, nreads, nstamps, hist>>

\* PerformDrain with the slip of not resetting self._q
PerformDrainKeep ==
    /\ UNCHANGED outsideEngine
    /\ pc = "drain"
    /\ q' = _q
    /\ _q_locked' = "free"
    /\ pc' = "exec"
    /\ cycles' = cycles + 1
    /\ drained' = Len(issued)
    /\ failedAt' = 0
    /\ UNCHANGED <<_q, running, _progress_last_run, _cache_last_updated,
                   _cache_value, _engine, call, ret, rd, now,
                   issued, ncomputed, nreads, nstamps, hist>>

\* q = self._q; self._q = list(); the lock is released
PerformDrain ==
    /\ UNCHANGED outsideEngine
    /\ pc = "drain"
    /\ q' = _q
    /\ _q' = <<>>
    /\ _q_locked' = "free"
    /\ pc' = "exec"
    /\ cycles' = cycles + 1
    /\ drained' = Len(issued)
    /\ failedAt' = 0
    /\ UNCHANGED <<running, _progress_last_run, _cache_last_updated,
                   _cache_value, _engine, call, ret, rd, now,
                   issued, ncomputed, nreads, nstamps, hist>>

\* the wrapped engine receives fn(*args, **kwargs)
EngineCall(e, op) == [e EXCEPT !.calls = Append(@, op)]

\* PerformExec with the slip of taking the calls from the end of q
PerformExecLifo(ok) ==
    /\ UNCHANGED outsideEngine
    /\ pc = "exec"
    /\ q # <<>>
    /\ _engine' = EngineCall(_engine, q[Len(q)])
    /\ failedAt' = IF ~ok /\ failedAt = 0 THEN Len(_engine.calls) + 1 ELSE failedAt
    /\ q' = SubSeq(q, 1, Len(q) - 1)
    /\ UNCHANGED <<_q, _q_locked, running, _progress_last_run, _cache_last_updated,
                   _cache_value, pc, call, ret, rd, now,
                   issued, cycles, drained, ncomputed, nreads, nstamps, hist>>

\* PerformExec without the try/except: an exception of the call leaves
\* _perform, the rest of q and the progress call are skipped
PerformExecNoCatch(ok) ==
    /\ UNCHANGED outsideEngine
    /\ pc = "exec"
    /\ q # <<>>
    /\ _engine' = EngineCall(_engine, Head(q))
    /\ failedAt' = IF ~ok /\ failedAt = 0 THEN Len(_engine.calls) + 1 ELSE failedAt
    /\ q' = IF ok THEN Tail(q) ELSE <<>>
    /\ pc' = IF ok THEN pc ELSE "idle"
    /\ UNCHANGED <<_q, _q_locked, running, _progress_last_run, _cache_last_updated,
                   _cache_value, call, ret, rd, now,
                   issued, cycles, drained, ncomputed, nreads, nstamps, hist>>

\* one round of `for fn, args, kwargs in q`: the call is made, and an
\* exception it raises is logged and dropped
PerformExec(ok) ==
    /\ UNCHANGED outsideEngine
    /\ pc = "exec"
    /\ q # <<>>
    /\ _engine' = EngineCall(_engine, Head(q))
    /\ failedAt' = IF ~ok /\ failedAt = 0 THEN Len(_engine.calls) + 1 ELSE failedAt
    /\ q' = Tail(q)
    /\ UNCHANGED <<_q, _q_locked, running, _progress_last_run, _cache_last_updated,
                   _cache_value, pc, call, ret, rd, now,
                   issued, cycles, drained, ncomputed, nreads, nstamps, hist>>

\* the wrapped engine receives progress(), which returns or raises
EngineProgress(e, ok) ==
    [e EXCEPT !.progress_calls = @ + 1,
              !.progress_raised = IF ok THEN @ ELSE @ + 1]

\* PerformProgress with the slip of going on to the timestamp when
\* progress() raised
PerformProgressAlwaysStamp(ok) ==
    /\ UNCHANGED outsideEngine
    /\ pc = "exec"
    /\ q = <<>>
    /\ _engine' = EngineProgress(_engine, ok)
    /\ pc' = "stamp"
    /\ UNCHANGED <<_q, _q_locked, running, _progress_last_run, _cache_last_updated,
                   _cache_value, q, call, ret, rd, now,
                   issued, cycles, drained, failedAt, ncomputed, nreads, nstamps, hist>>

\* self._engine.progress() after the loop; an exception it raises is logged
\* and _perform returns
PerformProgress(ok) ==
    /\ UNCHANGED outsideEngine
    /\ pc = "exec"
    /\ q = <<>>
    /\ _engine' = EngineProgress(_engine, ok)
    /\ pc' = IF ok THEN "stamp" ELSE "idle"
    /\ UNCHANGED <<_q, _q_locked, running, _progress_last_run, _cache_last_updated,
                   _cache_value, q, call, ret, rd, now,
                   issued, cycles, drained, failedAt, ncomputed, nreads, nstamps, hist>>

\* self._progress_last_run = time.time()
PerformStamp ==
    /\ UNCHANGED outsideEngine
    /\ pc = "stamp"
    /\ _progress_last_run' = now
    /\ nstamps' = nstamps + 1
    /\ pc' = "idle"
    /\ UNCHANGED <<_q, _q_locked, running, _cache_last_updated,
                   _cache_value, _engine, q, call, ret, rd, now,
                   issued, cycles, drained, failedAt, ncomputed, nreads, hist>>

NextEngine ==
    \/ Start
    \/ \E c \in Callers, name \in ProxyOps : Proxy(c, name)
    \/ PerformStart
    \/ PerformDrain
    \/ \E ok \in BOOLEAN : PerformExec(ok)
    \/ \E ok \in BOOLEAN : PerformProgress(ok)
    \/ PerformStamp

\* the engine after construction, no workflow description in use
Init ==
    /\ InitEngine
    /\ IdleWorkflow
    /\ IdleBatches
    /\ IdleTiles
    /\ IdleFiles
    /\ IdlePlates
    /\ IdleLogging
    /\ IdleConfig
    /\ IdleData
    /\ IdleCorilla

SpecEngine == Init /\ [][NextEngine]_vars

(***************************************************************************)
(* Properties of the proxy queue and the perform cycle                     *)
(***************************************************************************)
\* the calls of the history, as the (method, arguments) the engine should get
Calls(h) == [i \in DOMAIN h |-> [fn |-> h[i].fn, id |-> h[i].id]]

\* C1: when the first perform cycle has finished, the wrapped engine has
\* received exactly the proxy calls issued before that cycle drained the
\* queue, in the order they were issued, and the pending queue holds nothing
\* but the calls issued since the drain (it is empty when there were none).
C1_FirstCycleDeliversAll ==
    (cycles = 1 /\ pc = "idle") =>
        /\ _engine.calls = SubSeq(Calls(issued), 1, drained)
        /\ _q = SubSeq(Calls(issued), drained + 1, Len(issued))
        /\ (Len(issued) = drained => _q = <<>>)

\* C1 witness: one cycle has delivered two calls of different methods and
\* left the queue empty
C1_Witness ==
    /\ cycles = 1 /\ pc = "idle" /\ _q = <<>>
    /\ Len(_engine.calls) = 2
    /\ _engine.calls[1].fn # _engine.calls[2].fn

\* C2: at every point of every interleaving, the calls received by the
\* engine, the calls a cycle has drained and not yet made, and the pending
\* queue, put one after the other, are exactly the calls issued: none is
\* lost, none is there twice.  A call is only made by a cycle that drained
\* after the call was appended, and when a cycle ends every call appended
\* before its drain has been made.
C2_ExactlyOnce ==
    /\ _engine.calls \o q \o _q = Calls(issued)
    /\ Len(_engine.calls) + Len(q) = drained
    /\ (pc \in {"idle", "drain"} => q = <<>>)

\* C2 witness: the second cycle still has a call to make that it drained, and
\* a call appended during that cycle, after its drain, is pending
C2_Witness ==
    /\ cycles = 2 /\ pc = "exec" /\ q # <<>> /\ _q # <<>>

\* C3: a failing operation neither ends the perform cycle nor reaches a
\* caller: when the cycle's loop is over, every operation drained with the
\* failed one has been made, in order, and when the cycle is over progress
\* has been called once for each cycle, also after progress calls that failed.
C3_FailureIsolated ==
    /\ pc \in {"idle", "drain", "exec", "stamp"}
    /\ \A c \in Callers : ret[c].k \in {"-", "None", "val"}
    /\ (failedAt > 0 /\ q = <<>>) =>
           _engine.calls = SubSeq(Calls(issued), 1, drained)
    /\ pc = "idle" => _engine.progress_calls = cycles
    /\ pc = "stamp" => _engine.progress_calls = cycles

\* C3 witness: the progress call of the first cycle failed, and in the second
\* cycle an operation failed, a later one of the same queue was made and
\* progress was called
C3_Witness ==
    /\ cycles = 2 /\ pc = "idle" /\ _progress_last_run = 0
    /\ failedAt > 0 /\ Len(_engine.calls) > failedAt
    /\ _engine.progress_calls = 2

\* C4: a step in which a proxy method is called appends one entry for that
\* method at the tail of the pending queue and hands None to its caller; the
\* wrapped engine (its calls and so its tasks), the last-progress timestamp,
\* the read cache and everything else stay as they were.
C4_ProxyFrame ==
    [][issued' # issued =>
        /\ Len(issued') = Len(issued) + 1
        /\ _q' = Append(_q, Calls(issued')[Len(issued')])
        /\ \E c \in Callers : ret' = [ret EXCEPT ![c] = ReturnNone]
        /\ UNCHANGED <<_engine, _progress_last_run, _cache_last_updated,
                       _cache_value, _q_locked, running, pc, q, call, rd>>]_vars

\* C4 witness: two proxy calls have returned None, both are pending and the
\* engine has received nothing, although a perform cycle ran before them
C4_Witness ==
    /\ Len(_q) = 2 /\ _engine.calls = <<>> /\ cycles = 1
    /\ \A c \in Callers : ret[c] = ReturnNone

(***************************************************************************)
(* BgEngine: the cached reads (at_most_once_per_cycle)                     *)
(***************************************************************************)
\* the thread that calls the cached reads
Readers == {"c1"}

\* key = (fn, tuple(id(arg) for arg in args))
CacheKey(fn, t) == <<fn, t>>

\* d[key] of a defaultdict(float): a missing key reads as 0.0
DefaultGet(d, key) == IF key \in DOMAIN d THEN d[key] ELSE 0

\* d[key] = v
DictSet(d, key, v) ==
    [k \in DOMAIN d \cup {key} |-> IF k = key THEN v ELSE d[k]]

\* Outdated with <= for <
OutdatedOrEqual(stamp, last_run) == stamp <= last_run

\* update = self._cache_last_updated[key] < self._progress_last_run
Outdated(stamp, last_run) == stamp < last_run

\* what the tasks of the wrapped engine look like to a read: every call the
\* engine received may have changed them
TaskState(e) == Len(e.calls) + e.progress_calls

\* the progress calls that have returned so far: what the tasks' states are
\* up to date with
ProgressDone(e) == e.progress_calls - e.progress_raised

\* the body of task_data: a new dict built from the task's current state
task_data(t) ==
    [obj |-> ncomputed + 1, task |-> t, state |-> TaskState(_engine),
     asof |-> ProgressDone(_engine)]

\* a cached read with locals me returns val to its caller
Return(c, me, val, recomputed) ==
    /\ ret' = [ret EXCEPT ![c] = [k |-> "val", obj |-> val.obj, state |-> val.state]]
    /\ call' = [call EXCEPT ![c] = "idle"]
    /\ hist' = LET h == Append(hist, [obj |-> val.obj, state |-> val.state,
                                      task |-> val.task, asof |-> val.asof,
                                      recomputed |-> recomputed,
                                      enter |-> me.enter, leave |-> nstamps,
                                      plr |-> me.plr, tleave |-> now,
                                      fenter |-> me.fenter,
                                      fleave |-> _engine.progress_raised])
               IN IF Len(h) > 2 THEN Tail(h) ELSE h

\* wrapper(self, *args) up to the decision whether to run fn: with no
\* progress run so far the cache is bypassed; otherwise the cache is created
\* if missing, and a value that is not outdated is returned from it
WrapperEnter(c, fn, t) ==
    /\ UNCHANGED outsideEngine
    /\ call[c] = "idle"
    /\ nreads < MaxReads
    /\ nreads' = nreads + 1
    /\ LET key == CacheKey(fn, t)
           mine == [fn |-> fn, task |-> t, val |-> <<>>,
                    enter |-> nstamps, plr |-> _progress_last_run,
                    fenter |-> _engine.progress_raised]
       IN IF _progress_last_run = 0
          THEN /\ call' = [call EXCEPT ![c] = "bypass"]
               /\ rd' = [rd EXCEPT ![c] = mine]
               /\ UNCHANGED <<_cache_last_updated, _cache_value, ret, hist>>
          ELSE IF _cache_last_updated = <<>>
          THEN \* AttributeError: the two dicts are created
               /\ _cache_last_updated' = << <<>> >>
               /\ _cache_value' = << <<>> >>
               /\ call' = [call EXCEPT ![c] = "compute"]
               /\ rd' = [rd EXCEPT ![c] = mine]
               /\ UNCHANGED <<ret, hist>>
          ELSE LET stamp == DefaultGet(_cache_last_updated[1], key)
               IN /\ _cache_last_updated' =
                        << DictSet(_cache_last_updated[1], key, stamp) >>
                  /\ UNCHANGED _cache_value
                  /\ IF Outdated(stamp, _progress_last_run)
                     THEN /\ call' = [call EXCEPT ![c] = "compute"]
                          /\ rd' = [rd EXCEPT ![c] = mine]
                          /\ UNCHANGED <<ret, hist>>
                     ELSE /\ rd' = [rd EXCEPT ![c] = NoRead]
                          /\ Return(c, mine, _cache_value[1][key], FALSE)
    /\ UNCHANGED <<_q, _q_locked, running, _progress_last_run, _engine, pc, q, now,
                   issued, cycles, drained, failedAt, ncomputed, nstamps>>

\* fn(self, *args) runs; a bypassing wrapper returns its result at once
WrapperCompute(c) ==
    /\ UNCHANGED outsideEngine
    /\ call[c] \in {"bypass", "compute"}
    /\ ncomputed' = ncomputed + 1
    /\ IF call[c] = "bypass"
       THEN /\ rd' = [rd EXCEPT ![c] = NoRead]
            /\ Return(c, rd[c], task_data(rd[c].task), TRUE)
       ELSE /\ rd' = [rd EXCEPT ![c].val = task_data(rd[c].task)]
            /\ call' = [call EXCEPT ![c] = "store"]
            /\ UNCHANGED <<ret, hist>>
    /\ UNCHANGED <<_q, _q_locked, running, _progress_last_run, _cache_last_updated,
                   _cache_value, _engine, pc, q, now,
                   issued, cycles, drained, failedAt, nreads, nstamps>>

\* self._cache_value[key] = <result of fn>;
\* self._cache_last_updated[key] = time.time(); return self._cache_value[key]
WrapperStore(c) ==
    /\ UNCHANGED outsideEngine
    /\ call[c] = "store"
    /\ LET key == CacheKey(rd[c].fn, rd[c].task)
       IN /\ _cache_value' = << DictSet(_cache_value[1], key, rd[c].val) >>
          /\ _cache_last_updated' = << DictSet(_cache_last_updated[1], key, now) >>
    /\ rd' = [rd EXCEPT ![c] = NoRead]
    /\ Return(c, rd[c], rd[c].val, TRUE)
    /\ UNCHANGED <<_q, _q_locked, running, _progress_last_run, _engine, pc, q, now,
                   issued, cycles, drained, failedAt, ncomputed, nreads, nstamps>>

NextCache ==
    \/ Start
    \/ Tick
    \/ \E c \in Readers, t \in Tasks : WrapperEnter(c, "task_data", t)
    \/ \E c \in Readers : WrapperCompute(c)
    \/ \E c \in Readers : WrapperStore(c)
    \/ PerformStart
    \/ PerformDrain
    \/ \E ok \in BOOLEAN : PerformProgress(ok)
    \/ PerformStamp

SpecCache == Init /\ [][NextCache]_vars

(***************************************************************************)
(* Properties of the read cache                                            *)
(***************************************************************************)
\* the value the cache holds for task_data(t), <<>> if none
Cached(t) ==
    IF _cache_value # <<>> /\ CacheKey("task_data", t) \in DOMAIN _cache_value[1]
    THEN << _cache_value[1][CacheKey("task_data", t)] >>
    ELSE <<>>

\* C5 as stated: of two task_data(t) calls that follow each other, in every
\* state, the second returns the cached object of the first without running
\* the body again when no progress cycle completed from the first call on,
\* and runs the body again when a progress cycle completed between the two.
C5_AsStated ==
    (Len(hist) = 2 /\ hist[1].task = hist[2].task) =>
        /\ hist[2].leave = hist[1].enter =>
               (~hist[2].recomputed /\ hist[2].obj = hist[1].obj)
        /\ hist[2].enter > hist[1].leave => hist[2].recomputed

\* C5 as amended: once a progress cycle has completed, of two task_data(t)
\* calls that follow each other with no progress cycle completing from the
\* first call on, the second returns the cached object of the first without
\* running the body again; before the first progress cycle completes every
\* call runs the body; and a call made after a progress cycle completed at a
\* clock reading later than the return of the call before it runs the body
\* again, and its result is the value cached from then on.
C5_CachedPerCycle ==
    (Len(hist) = 2 /\ hist[1].task = hist[2].task) =>
        /\ (hist[1].enter >= 1 /\ hist[2].leave = hist[1].enter) =>
               (~hist[2].recomputed /\ hist[2].obj = hist[1].obj)
        /\ hist[2].leave = 0 => hist[2].recomputed
        /\ hist[2].plr > hist[1].tleave =>
               /\ hist[2].recomputed
               /\ Cached(hist[2].task) # <<>>
               /\ Cached(hist[2].task)[1].obj = hist[2].obj

\* C5 witness: after a progress cycle a call ran the body, and the next call
\* for the same task got the same object from the cache
C5_Witness ==
    /\ Len(hist) = 2 /\ hist[1].task = hist[2].task
    /\ hist[1].enter >= 1 /\ hist[1].recomputed
    /\ hist[2].leave = hist[1].enter
    /\ ~hist[2].recomputed /\ hist[2].obj = hist[1].obj

\* C21: under every interleaving of a cached read and the perform cycle, a
\* value served from the cache was computed from the engine's state as of
\* the latest progress cycle that had completed when the cache was
\* consulted, or a later one: a progress cycle that completes while a value
\* is computed does not leave the value of before cached as current.
C21_ServedNotOlderThanProgress ==
    \A i \in DOMAIN hist :
        ~hist[i].recomputed => hist[i].asof >= hist[i].enter

(***************************************************************************)
(* BgEngine: the perform cycle with proxy calls and cached reads together  *)
(***************************************************************************)
\* the thread that calls the proxy methods while another one reads
Writers == Callers \ Readers

NextPerform ==
    \/ Start
    \/ Tick
    \/ \E c \in Writers : Proxy(c, "add")
    \/ \E c \in Readers : WrapperEnter(c, "task_data", "t1")
    \/ \E c \in Readers : WrapperCompute(c)
    \/ \E c \in Readers : WrapperStore(c)
    \/ PerformStart
    \/ PerformDrain
    \/ \E ok \in BOOLEAN : PerformExec(ok)
    \/ \E ok \in BOOLEAN : PerformProgress(ok)
    \/ PerformStamp

SpecPerform == Init /\ [][NextPerform]_vars

\* in every state: progress has been called once for each cycle that is over
\* and not yet in a cycle that is still executing its operations, and the
\* timestamp has been set once for each progress call that returned
ProgressCounts ==
    /\ pc \in {"idle", "drain", "stamp"} => _engine.progress_calls = cycles
    /\ pc = "exec" => _engine.progress_calls + 1 = cycles
    /\ nstamps + (IF pc = "stamp" THEN 1 ELSE 0)
           = _engine.progress_calls - _engine.progress_raised

\* a read that began after a progress call failed, with no timestamp set
\* since the read before it began, returns the object of the read before it
\* without running the body
ServedAcrossFailure ==
    (/\ Len(hist) = 2 /\ hist[1].task = hist[2].task
     /\ hist[1].enter >= 1
     /\ hist[2].fenter > hist[1].fleave
     /\ hist[2].leave = hist[1].enter)
    => (~hist[2].recomputed /\ hist[2].obj = hist[1].obj)

\* in every step: progress is called when every operation of the cycle's
\* queue has been made, the call leaves the timestamp alone, _perform goes
\* on to the timestamp if it returned and ends if it raised, and the
\* timestamp is set only after a call that returned, to the current time
ProgressStep ==
    /\ _engine'.progress_calls # _engine.progress_calls =>
           /\ pc = "exec" /\ q = <<>>
           /\ _engine.calls = SubSeq(Calls(issued), 1, drained)
           /\ _engine'.progress_calls = _engine.progress_calls + 1
           /\ _engine'.calls = _engine.calls
           /\ UNCHANGED <<_progress_last_run, nstamps>>
           /\ pc' = IF _engine'.progress_raised = _engine.progress_raised
                    THEN "stamp" ELSE "idle"
    /\ (nstamps' # nstamps \/ _progress_last_run' # _progress_last_run) =>
           /\ pc = "stamp" /\ pc' = "idle"
           /\ nstamps' = nstamps + 1
           /\ _progress_last_run' = now
           /\ UNCHANGED _engine

\* C19: every perform cycle calls progress on the wrapped engine once,
\* after all operations it took from the queue have been made; the
\* last-progress timestamp is set in a cycle if and only if that progress
\* call returned, and stays as it is when the call raised, so that a result
\* cached before a failed progress call is still served after it.
C19_ProgressPerCycle ==
    /\ [](ProgressCounts /\ ServedAcrossFailure)
    /\ [][ProgressStep]_vars

\* a read was served from the cache after the progress call of a cycle that
\* had made an operation raised
C19_Witness ==
    /\ Len(hist) = 2 /\ hist[1].task = hist[2].task
    /\ hist[2].fenter > hist[1].fleave
    /\ ~hist[2].recomputed /\ hist[2].obj = hist[1].obj
    /\ cycles = 2 /\ pc = "idle" /\ nstamps = 1
    /\ Len(_engine.calls) >= 1
    /\ now > 1

(***************************************************************************)
(* BgEngine: stop and the synchronous progress call                        *)
(***************************************************************************)
\* BgEngine.stop: a cycle that is running goes on to its end
Stop ==
    /\ UNCHANGED outsideEngine
    /\ running # "False"
    /\ running' = "False"
    /\ UNCHANGED <<_q, _q_locked, _progress_last_run, _cache_last_updated,
                   _cache_value, _engine, pc, q, call, ret, rd, now,
                   issued, cycles, drained, failedAt, ncomputed, nreads, nstamps, hist>>

\* what BgEngine.progress() gave its caller: the exception it raised ("ok"
\* if none), with self.running as the call found it
ProgressReturn(err, was) == [k |-> "progress", err |-> err, was |-> was]

\* BgEngine.progress(): reading self.running raises AttributeError when
\* neither start nor stop has set it; the call does nothing when it is True
\* and calls self._engine.progress() in the caller's thread when it is False
SyncProgress(c, ok) ==
    /\ UNCHANGED outsideEngine
    /\ call[c] = "idle"
    /\ _engine.progress_calls < MaxCycles + MaxOps
    /\ IF running = "unset"
       THEN /\ ret' = [ret EXCEPT ![c] = ProgressReturn("AttributeError", running)]
            /\ UNCHANGED _engine
       ELSE IF running = "True"
       THEN /\ ret' = [ret EXCEPT ![c] = ProgressReturn("ok", running)]
            /\ UNCHANGED _engine
       ELSE /\ _engine' = EngineProgress(_engine, ok)
            /\ ret' = [ret EXCEPT ![c] =
                          ProgressReturn(IF ok THEN "ok" ELSE "Exception", running)]
    /\ UNCHANGED <<_q, _q_locked, running, _progress_last_run, _cache_last_updated,
                   _cache_value, pc, q, call, rd, now,
                   issued, cycles, drained, failedAt, ncomputed, nreads, nstamps, hist>>

NextSync ==
    \/ Start
    \/ Stop
    \/ \E c \in Callers, ok \in BOOLEAN : SyncProgress(c, ok)
    \/ \E c \in Writers : Proxy(c, "add")
    \/ PerformStart
    \/ PerformDrain
    \/ \E ok \in BOOLEAN : PerformExec(ok)
    \/ \E ok \in BOOLEAN : PerformProgress(ok)
    \/ PerformStamp

SpecSync == Init /\ [][NextSync]_vars

\* C20: a call of BgEngine.progress() makes no call on the wrapped engine
\* when the scheduler is running, and makes exactly one progress call on it,
\* in the caller's thread, when the scheduler is not running: after stop(),
\* and also when start() was never called.
C20_SyncProgress ==
    [][\A c \in Callers :
          (ret'[c] # ret[c] /\ ret'[c].k = "progress") =>
              IF running = "True"
              THEN UNCHANGED _engine /\ ret'[c].err = "ok"
              ELSE /\ _engine'.progress_calls = _engine.progress_calls + 1
                   /\ _engine'.calls = _engine.calls
                   /\ ret'[c].err \in {"ok", "Exception"}]_vars

(***************************************************************************)
(* Workflow descriptions (src/tmlib/workflow/description.py).              *)
(*                                                                         *)
(* A Python object is a record of its attributes, a list a sequence, None  *)
(* the empty tuple <<>> and a present optional value x the tuple <<x>>.    *)
(* A call that may raise returns [err |-> the exception class or "ok",     *)
(* val |-> the object after the call]; when it raises, val is the object   *)
(* as the call left it.                                                    *)
(***************************************************************************)
StageNames == {"s1", "s2", "sx"}
StepNames == {"a", "b", "c"}

Range(seq) == {seq[i] : i \in DOMAIN seq}

Names(seq) == [i \in DOMAIN seq |-> seq[i].name]

\* the stages another stage may name as required upstream
UpstreamStages(s) == SUBSET ({"s1", "s2"} \ {s})

\* the required upstream steps a step may declare in its stage: "a" and "b"
\* are the steps of one stage, "c" the step of another and has no entry
UpstreamSteps(t) ==
    IF t = "a" THEN {{"b"}} ELSE IF t = "b" THEN {{}, {"a"}} ELSE {}

\* the INTER_STAGE_DEPENDENCIES mappings: some of the declared stages have
\* an entry
InterStageMaps ==
    UNION {{f \in [K -> SUBSET {"s1", "s2"}] : \A k \in K : f[k] \in UpstreamStages(k)} :
               K \in SUBSET {"s1", "s2"}}

\* the INTRA_STAGE_DEPENDENCIES mappings: some of the steps have an entry
IntraStageMaps ==
    UNION {{f \in [K -> SUBSET StepNames] : \A k \in K : f[k] \in UpstreamSteps(k)} :
               K \in SUBSET StepNames}

\* the dependency declarations of a workflow type: "sx" is declared by none
Declarations ==
    {[STAGES |-> <<"s1", "s2">>,
      STAGE_MODES |-> [n \in {"s1", "s2"} |-> "sequential"],
      STEPS_PER_STAGE |-> [n \in {"s1", "s2"} |->
                               IF n = "s1" THEN <<"a", "b">> ELSE <<"c">>],
      INTER_STAGE_DEPENDENCIES |-> inter,
      INTRA_STAGE_DEPENDENCIES |-> intra] :
        inter \in InterStageMaps, intra \in IntraStageMaps}

Raise(cls, obj) == [err |-> cls, val |-> obj]

Ok(obj) == [err |-> "ok", val |-> obj]

(***************************************************************************)
(* The argument framework and the step registry are imported by            *)
(* description.py (tmlib.workflow.args, get_step_args,                     *)
(* get_step_information); they are modelled from the specification: an     *)
(* argument group holds a value for exactly its declared fields, rejects   *)
(* unknown fields, takes the declared default for a field it is not given  *)
(* and exports an ordered list of name/value pairs.                        *)
(***************************************************************************)
ArgValues == {"v0", "v1"}

DefaultValue == "v0"

\* the argument classes of a step: the declared fields of each group, and
\* no extra-argument class (None) for the steps other than "b"
get_step_args(name) ==
    [BatchArgs |-> <<"batch_size">>,
     SubmissionArgs |-> <<"cores">>,
     ExtraArgs |-> IF name = "b" THEN << <<"pipeline">> >> ELSE <<>>]

get_step_information(name) == [fullname |-> <<"fullname", name>>, help |-> <<"help", name>>]

\* {a['name']: a['value'] for a in pairs}: a later pair overrides an earlier
ArgValuesDict(pairs) ==
    [n \in {pairs[i].name : i \in DOMAIN pairs} |->
        pairs[CHOOSE i \in DOMAIN pairs :
                  /\ pairs[i].name = n
                  /\ \A j \in DOMAIN pairs : pairs[j].name = n => j <= i].value]

\* Args(**values) of the class with the declared fields
NewArgs(fields, values) ==
    IF \E n \in DOMAIN values : n \notin Range(fields)
    THEN Raise("AttributeError", <<>>)
    ELSE Ok([fields |-> fields,
             values |-> [i \in DOMAIN fields |->
                            IF fields[i] \in DOMAIN values
                            THEN values[fields[i]] ELSE DefaultValue]])

\* Args(): every field at its declared default
DefaultArgs(fields) == NewArgs(fields, <<>>).val

as_list(args) ==
    [i \in DOMAIN args.fields |-> [name |-> args.fields[i], value |-> args.values[i]]]

\* WorkflowStepDescription(name, active, batch_args, submission_args,
\* extra_args): each group is <<>> (None) or <<instance>>
WorkflowStepDescription(name, active, batch_args, submission_args, extra_args) ==
    LET cls == get_step_args(name)
        info == get_step_information(name)
    IN  [name |-> name,
         fullname |-> info.fullname,
         help |-> info.help,
         active |-> active,
         batch_args |-> IF batch_args = <<>>
                        THEN DefaultArgs(cls.BatchArgs) ELSE batch_args[1],
         submission_args |-> IF submission_args = <<>>
                             THEN DefaultArgs(cls.SubmissionArgs)
                             ELSE submission_args[1],
         extra_args |-> IF extra_args = <<>>
                        THEN IF cls.ExtraArgs # <<>>
                             THEN <<DefaultArgs(cls.ExtraArgs[1])>>
                             ELSE <<>>
                        ELSE extra_args]

WorkflowStepDescription_to_dict(self) ==
    [name |-> self.name,
     fullname |-> self.fullname,
     help |-> self.help,
     active |-> self.active,
     batch_args |-> as_list(self.batch_args),
     submission_args |-> as_list(self.submission_args),
     extra_args |-> IF self.extra_args # <<>>
                    THEN <<as_list(self.extra_args[1])>>
                    ELSE <<>>]

\* WorkflowStageDescription.add_step, without the check for a step of the
\* same name
add_stepTwice(deps, self, step_description) ==
    IF self.name \notin DOMAIN deps.STEPS_PER_STAGE
    THEN Raise("KeyError", self)
    ELSE IF step_description.name \notin Range(deps.STEPS_PER_STAGE[self.name])
    THEN Raise("WorkflowDescriptionError", self)
    ELSE IF /\ step_description.name \in DOMAIN deps.INTRA_STAGE_DEPENDENCIES
            /\ \E dep \in deps.INTRA_STAGE_DEPENDENCIES[step_description.name] :
                   dep \notin Range(Names(self.steps))
    THEN Raise("WorkflowDescriptionError", self)
    ELSE Ok([self EXCEPT !.steps = Append(@, step_description)])

\* WorkflowStageDescription.add_step, without the check of the step's
\* required upstream steps
add_stepAnywhere(deps, self, step_description) ==
    IF \E i \in DOMAIN self.steps : self.steps[i].name = step_description.name
    THEN Raise("WorkflowDescriptionError", self)
    ELSE IF self.name \notin DOMAIN deps.STEPS_PER_STAGE
    THEN Raise("KeyError", self)
    ELSE IF step_description.name \notin Range(deps.STEPS_PER_STAGE[self.name])
    THEN Raise("WorkflowDescriptionError", self)
    ELSE Ok([self EXCEPT !.steps = Append(@, step_description)])

\* add_step with the step appended before the upstream steps are looked at
add_stepAppendFirst(deps, self, step_description) ==
    LET appended == [self EXCEPT !.steps = Append(@, step_description)]
    IN  IF \E i \in DOMAIN self.steps : self.steps[i].name = step_description.name
        THEN Raise("WorkflowDescriptionError", self)
        ELSE IF self.name \notin DOMAIN deps.STEPS_PER_STAGE
        THEN Raise("KeyError", self)
        ELSE IF step_description.name \notin Range(deps.STEPS_PER_STAGE[self.name])
        THEN Raise("WorkflowDescriptionError", self)
        ELSE IF /\ step_description.name \in DOMAIN deps.INTRA_STAGE_DEPENDENCIES
                /\ \E dep \in deps.INTRA_STAGE_DEPENDENCIES[step_description.name] :
                       dep \notin Range(Names(self.steps))
        THEN Raise("WorkflowDescriptionError", appended)
        ELSE Ok(appended)

\* WorkflowStageDescription.add_step(step_description)
add_step(deps, self, step_description) ==
    IF \E i \in DOMAIN self.steps : self.steps[i].name = step_description.name
    THEN Raise("WorkflowDescriptionError", self)
    ELSE IF self.name \notin DOMAIN deps.STEPS_PER_STAGE
    THEN Raise("KeyError", self)
    ELSE IF step_description.name \notin Range(deps.STEPS_PER_STAGE[self.name])
    THEN Raise("WorkflowDescriptionError", self)
    ELSE IF /\ step_description.name \in DOMAIN deps.INTRA_STAGE_DEPENDENCIES
            /\ \E dep \in deps.INTRA_STAGE_DEPENDENCIES[step_description.name] :
                   dep \notin Range(Names(self.steps))
    THEN Raise("WorkflowDescriptionError", self)
    ELSE Ok([self EXCEPT !.steps = Append(@, step_description)])

\* the first present stage at which the loop over the present stages stops:
\* one without an INTER_STAGE_DEPENDENCIES entry or one that requires the
\* new stage upstream; 0 if the loop runs to its end
FirstStop(deps, stage_names, name) ==
    LET stop == {i \in DOMAIN stage_names :
                    \/ stage_names[i] \notin DOMAIN deps.INTER_STAGE_DEPENDENCIES
                    \/ name \in deps.INTER_STAGE_DEPENDENCIES[stage_names[i]]}
    IN  IF stop = {} THEN 0 ELSE CHOOSE i \in stop : \A j \in stop : i <= j

\* WorkflowDescription.add_stage, without the statements that look at
\* INTER_STAGE_DEPENDENCIES
add_stageUnordered(deps, stages_, stage_description) ==
    LET name == stage_description.name
        step_names == Names(stage_description.steps)
    IN  IF \E i \in DOMAIN stages_ : stages_[i].name = name
        THEN Raise("WorkflowDescriptionError", stages_)
        ELSE IF name \notin Range(deps.STAGES)
        THEN Raise("WorkflowDescriptionError", stages_)
        ELSE IF \E i \in DOMAIN step_names :
                    step_names[i] \notin Range(deps.STEPS_PER_STAGE[name])
        THEN Raise("WorkflowDescriptionError", stages_)
        ELSE Ok(Append(stages_, stage_description))

\* WorkflowDescription.add_stage(stage_description) on the stage list
add_stage(deps, stages_, stage_description) ==
    LET name == stage_description.name
        stage_names == Names(stages_)
        step_names == Names(stage_description.steps)
        stop == FirstStop(deps, stage_names, name)
    IN  IF \E i \in DOMAIN stages_ : stages_[i].name = name
        THEN Raise("WorkflowDescriptionError", stages_)
        ELSE IF name \notin Range(deps.STAGES)
        THEN Raise("WorkflowDescriptionError", stages_)
        ELSE IF step_names # <<>> /\ name \notin DOMAIN deps.STEPS_PER_STAGE
        THEN Raise("KeyError", stages_)
        ELSE IF \E i \in DOMAIN step_names :
                    step_names[i] \notin Range(deps.STEPS_PER_STAGE[name])
        THEN Raise("WorkflowDescriptionError", stages_)
        \* logger is not a name of the module: the warning raises
        ELSE IF /\ name \in DOMAIN deps.INTER_STAGE_DEPENDENCIES
                /\ \E dep \in deps.INTER_STAGE_DEPENDENCIES[name] :
                       dep \notin Range(stage_names)
        THEN Raise("NameError", stages_)
        ELSE IF stop # 0
        THEN IF stage_names[stop] \notin DOMAIN deps.INTER_STAGE_DEPENDENCIES
             THEN Raise("KeyError", stages_)
             ELSE Raise("WorkflowDescriptionError", stages_)
        ELSE IF name \notin DOMAIN deps.STEPS_PER_STAGE
        THEN Raise("KeyError", stages_)
        \* the message of this error is formatted with too few arguments
        ELSE IF \E i \in DOMAIN step_names :
                    step_names[i] \notin Range(deps.STEPS_PER_STAGE[name])
        THEN Raise("TypeError", stages_)
        ELSE Ok(Append(stages_, stage_description))

\* the step a step description given as key-value pairs is resolved into:
\* the argument values are read from the name/value pairs of each group
StepFromDict(step) ==
    LET cls == get_step_args(step.name)
        batch_args == NewArgs(cls.BatchArgs, ArgValuesDict(step.batch_args))
        submission_args == NewArgs(cls.SubmissionArgs, ArgValuesDict(step.submission_args))
        extra_args == IF cls.ExtraArgs = <<>> THEN Ok(<<>>)
                      \* None is not iterable
                      ELSE IF step.extra_args = <<>> THEN Raise("TypeError", <<>>)
                      ELSE NewArgs(cls.ExtraArgs[1], ArgValuesDict(step.extra_args[1]))
    IN  IF batch_args.err # "ok" THEN Raise(batch_args.err, <<>>)
        ELSE IF submission_args.err # "ok" THEN Raise(submission_args.err, <<>>)
        ELSE IF extra_args.err # "ok" THEN Raise(extra_args.err, <<>>)
        ELSE Ok(WorkflowStepDescription(
                    step.name, step.active, <<batch_args.val>>,
                    <<submission_args.val>>,
                    IF cls.ExtraArgs # <<>> THEN <<extra_args.val>> ELSE <<>>))

\* the loop over the given step descriptions
RECURSIVE AddStepsFromDicts(_, _, _)
AddStepsFromDicts(deps, self, steps) ==
    IF steps = <<>> THEN Ok(self)
    ELSE LET step == StepFromDict(Head(steps))
         IN  IF step.err # "ok" THEN Raise(step.err, self)
             ELSE LET added == add_step(deps, self, step.val)
                  IN  IF added.err # "ok" THEN added
                      ELSE AddStepsFromDicts(deps, added.val, Tail(steps))

\* the loop over the steps declared for the stage
RECURSIVE AddDeclaredSteps(_, _, _)
AddDeclaredSteps(deps, self, names) ==
    IF names = <<>> THEN Ok(self)
    ELSE LET added == add_step(deps, self,
                          WorkflowStepDescription(Head(names), TRUE, <<>>, <<>>, <<>>))
         IN  IF added.err # "ok" THEN added
             ELSE AddDeclaredSteps(deps, added.val, Tail(names))

\* WorkflowStageDescription(type, name, mode, active, steps) that resolves
\* every given step with its declared default arguments
WorkflowStageDescriptionDefaults(deps, name, mode, active, steps) ==
    LET self == [name |-> name, mode |-> mode, active |-> active, steps |-> <<>>]
    IN  IF mode \notin {"parallel", "sequential"}
        THEN Raise("ValueError", <<>>)
        ELSE IF steps # <<>>
        THEN AddDeclaredSteps(deps, self, Names(steps[1]))
        ELSE IF name \notin DOMAIN deps.STEPS_PER_STAGE
        THEN Raise("KeyError", self)
        ELSE AddDeclaredSteps(deps, self, deps.STEPS_PER_STAGE[name])

\* WorkflowStageDescription(type, name, mode, active, steps): steps is <<>>
\* (None) or <<the list of step descriptions as key-value pairs>>
WorkflowStageDescription(deps, name, mode, active, steps) ==
    LET self == [name |-> name, mode |-> mode, active |-> active, steps |-> <<>>]
    IN  IF mode \notin {"parallel", "sequential"}
        THEN Raise("ValueError", <<>>)
        ELSE IF steps # <<>>
        THEN AddStepsFromDicts(deps, self, steps[1])
        ELSE IF name \notin DOMAIN deps.STEPS_PER_STAGE
        THEN Raise("KeyError", self)
        ELSE AddDeclaredSteps(deps, self, deps.STEPS_PER_STAGE[name])

WorkflowStageDescription_to_dict(self) ==
    [name |-> self.name,
     mode |-> self.mode,
     active |-> self.active,
     steps |-> [i \in DOMAIN self.steps |-> WorkflowStepDescription_to_dict(self.steps[i])]]

\* WorkflowDescription.to_dict() of the description with the given stages
WorkflowDescription_to_dict(type, stages_) ==
    [type |-> type,
     stages |-> [i \in DOMAIN stages_ |-> WorkflowStageDescription_to_dict(stages_[i])]]

\* the loop of WorkflowDescription(type, stages) over the given stage
\* descriptions: WorkflowStageDescription(type, **stage), then add_stage
RECURSIVE AddStagesFromDicts(_, _, _)
AddStagesFromDicts(deps, stages_, dicts) ==
    IF dicts = <<>> THEN Ok(stages_)
    ELSE LET d == Head(dicts)
             stage == WorkflowStageDescription(deps, d.name, d.mode, d.active, <<d.steps>>)
         IN  IF stage.err # "ok" THEN Raise(stage.err, stages_)
             ELSE LET added == add_stage(deps, stages_, stage.val)
                  IN  IF added.err # "ok" THEN added
                      ELSE AddStagesFromDicts(deps, added.val, Tail(dicts))

\* WorkflowDescription(type, stages) for a given list of stages: its stage
\* list, or the exception of the first stage that is rejected
WorkflowDescription(deps, stages_) == AddStagesFromDicts(deps, <<>>, stages_)

WorkflowType == "canonical"

\* WorkflowDescription(type, stages=[]) for a declaration of the type
InitWorkflow ==
    /\ dependencies \in Declarations
    /\ stages = <<>>
    /\ draft = <<>>
    /\ raised = "ok"
    /\ copy = <<>>
    /\ lastcall = NoCall

\* stage = WorkflowStageDescription(type, name, mode, active, steps); the
\* name stays unbound when the constructor raises
NewStage(name, mode, active, steps) ==
    LET made == WorkflowStageDescription(dependencies, name, mode, active, steps)
    IN  /\ draft' = IF made.err = "ok" THEN <<made.val>> ELSE draft
        /\ raised' = made.err
        /\ lastcall' = [op |-> "WorkflowStageDescription", name |-> name,
                        stage |-> "-", at |-> 0, pre |-> <<>>]
        /\ copy' = <<>>
        /\ UNCHANGED <<dependencies, stages>>
        /\ UNCHANGED outsideWorkflow

\* stage.add_step(step) on the stage that is not in the workflow
AddStepToDraft(step) ==
    /\ UNCHANGED outsideWorkflow
    /\ draft # <<>>
    /\ LET added == add_step(dependencies, draft[1], step)
       IN  /\ draft' = <<added.val>>
           /\ raised' = added.err
           /\ lastcall' = [op |-> "add_step", name |-> step.name,
                           stage |-> draft[1].name, at |-> 0,
                           pre |-> Names(draft[1].steps)]
    /\ copy' = <<>>
    /\ UNCHANGED <<dependencies, stages>>

\* workflow.stages[i].add_step(step)
AddStepToStage(i, step) ==
    /\ UNCHANGED outsideWorkflow
    /\ i \in DOMAIN stages
    /\ LET added == add_step(dependencies, stages[i], step)
       IN  /\ stages' = [stages EXCEPT ![i] = added.val]
           /\ raised' = added.err
           /\ lastcall' = [op |-> "add_step", name |-> step.name,
                           stage |-> stages[i].name, at |-> i,
                           pre |-> Names(stages[i].steps)]
    /\ copy' = <<>>
    /\ UNCHANGED <<dependencies, draft>>

\* workflow.add_stage(stage)
AddStage ==
    /\ UNCHANGED outsideWorkflow
    /\ draft # <<>>
    /\ LET added == add_stage(dependencies, stages, draft[1])
       IN  /\ stages' = added.val
           /\ draft' = IF added.err = "ok" THEN <<>> ELSE draft
           /\ raised' = added.err
           /\ lastcall' = [op |-> "add_stage", name |-> draft[1].name,
                           stage |-> "-", at |-> 0, pre |-> Names(stages)]
    /\ copy' = <<>>
    /\ UNCHANGED dependencies

\* WorkflowDescription(workflow.type, workflow.to_dict()['stages'])
Rebuild ==
    LET description == WorkflowDescription_to_dict(WorkflowType, stages)
        built == WorkflowDescription(dependencies, description.stages)
    IN  /\ copy' = <<[of |-> description, err |-> built.err, stages |-> built.val]>>
        /\ raised' = built.err
        /\ lastcall' = [op |-> "WorkflowDescription", name |-> "-",
                        stage |-> "-", at |-> 0, pre |-> <<>>]
        /\ UNCHANGED <<dependencies, stages, draft>>
        /\ UNCHANGED outsideWorkflow

\* the steps a caller passes with the declared default arguments
DefaultSteps == {WorkflowStepDescription(n, TRUE, <<>>, <<>>, <<>>) : n \in StepNames}

NextWorkflow ==
    \/ \E name \in StageNames, mode \in {"sequential", "serial"}, steps \in {<<>>, << <<>> >>} :
           NewStage(name, mode, TRUE, steps)
    \/ \E step \in DefaultSteps : AddStepToDraft(step)
    \/ \E i \in 1..2, step \in DefaultSteps : AddStepToStage(i, step)
    \/ AddStage

\* an empty description of a declared type, the engine not in use
InitDescription ==
    /\ InitEngine
    /\ InitWorkflow
    /\ IdleBatches
    /\ IdleTiles
    /\ IdleFiles
    /\ IdlePlates
    /\ IdleLogging
    /\ IdleConfig
    /\ IdleData
    /\ IdleCorilla

SpecWorkflow == InitDescription /\ [][NextWorkflow]_vars

\* the present stage A requires the stage B upstream
Requires(A, B) ==
    /\ A \in DOMAIN dependencies.INTER_STAGE_DEPENDENCIES
    /\ B \in dependencies.INTER_STAGE_DEPENDENCIES[A]

MissesUpstream(name, present) ==
    /\ name \in DOMAIN dependencies.INTER_STAGE_DEPENDENCIES
    /\ \E dep \in dependencies.INTER_STAGE_DEPENDENCIES[name] : dep \notin Range(present)

(***************************************************************************)
(* C7: add_stage of a stage whose name is declared, that is not present    *)
(* yet, whose steps are all declared for it (add_step admits no others)    *)
(* and that no present stage requires upstream, succeeds and appends the   *)
(* stage even when a stage it requires upstream is not present yet.        *)
(***************************************************************************)
C7_MissingUpstreamOnlyWarns ==
    (/\ lastcall.op = "add_stage"
     /\ lastcall.name \in Range(dependencies.STAGES)
     /\ lastcall.name \notin Range(lastcall.pre)
     /\ \A i \in DOMAIN lastcall.pre : ~Requires(lastcall.pre[i], lastcall.name)
     /\ MissesUpstream(lastcall.name, lastcall.pre))
        => /\ raised = "ok"
           /\ Names(stages) = Append(lastcall.pre, lastcall.name)

\* every stage object: the stages of the workflow and the one outside it
AllStages == Range(stages) \cup Range(draft)

\* the stage the latest add_step was called on
Target == IF lastcall.at = 0 THEN draft[1] ELSE stages[lastcall.at]

Distinct(seq) == \A i, j \in DOMAIN seq : i # j => seq[i] # seq[j]

\* the steps declared for a stage; none for a stage that is not declared
DeclaredSteps(name) ==
    IF name \in DOMAIN dependencies.STEPS_PER_STAGE
    THEN Range(dependencies.STEPS_PER_STAGE[name]) ELSE {}

(***************************************************************************)
(* C8: after any sequence of add_stage and add_step calls the stage names  *)
(* of the workflow are pairwise distinct and declared in STAGES, and the   *)
(* step names of every stage are pairwise distinct and declared in the     *)
(* stage's STEPS_PER_STAGE entry; add_stage of an undeclared or present    *)
(* name, and add_step (on a stage that has a STEPS_PER_STAGE entry) of an  *)
(* undeclared or present name, raise WorkflowDescriptionError and add      *)
(* nothing.                                                                *)
(***************************************************************************)
C8_NamesDistinctAndDeclared ==
    /\ Distinct(Names(stages))
    /\ Range(Names(stages)) \subseteq Range(dependencies.STAGES)
    /\ \A stage \in AllStages :
           /\ Distinct(Names(stage.steps))
           /\ Range(Names(stage.steps)) \subseteq DeclaredSteps(stage.name)
    /\ (/\ lastcall.op = "add_stage"
        /\ \/ lastcall.name \notin Range(dependencies.STAGES)
           \/ lastcall.name \in Range(lastcall.pre))
           => /\ raised = "WorkflowDescriptionError"
              /\ Names(stages) = lastcall.pre
    /\ (/\ lastcall.op = "add_step"
        /\ lastcall.stage \in DOMAIN dependencies.STEPS_PER_STAGE
        /\ \/ lastcall.name \notin DeclaredSteps(lastcall.stage)
           \/ lastcall.name \in Range(lastcall.pre))
           => /\ raised = "WorkflowDescriptionError"
              /\ Names(Target.steps) = lastcall.pre

\* a stage of the workflow holds two steps and rejected a step it holds,
\* while a stage of an undeclared name exists outside the workflow
C8_Witness ==
    /\ lastcall.op = "add_step"
    /\ lastcall.at > 0
    /\ Len(lastcall.pre) = 2
    /\ lastcall.name \in Range(lastcall.pre)
    /\ raised = "WorkflowDescriptionError"
    /\ Len(stages) = 2
    /\ draft # <<>>
    /\ draft[1].name = "sx"

\* the step has an INTRA_STAGE_DEPENDENCIES entry that names a step which is
\* not among the given step names
MissesUpstreamStep(name, present) ==
    /\ name \in DOMAIN dependencies.INTRA_STAGE_DEPENDENCIES
    /\ \E dep \in dependencies.INTRA_STAGE_DEPENDENCIES[name] : dep \notin Range(present)

(***************************************************************************)
(* C9: after any sequence of add_step calls every step of a stage stands   *)
(* after all the steps its INTRA_STAGE_DEPENDENCIES entry names; add_step  *)
(* (on a stage that has a STEPS_PER_STAGE entry) raises                    *)
(* WorkflowDescriptionError and adds nothing when a required upstream step *)
(* is not in the stage, and appends the step at the end when the step is   *)
(* declared for the stage, not in it yet, and misses no upstream step.     *)
(***************************************************************************)
C9_StepOrder ==
    /\ \A stage \in AllStages : \A j \in DOMAIN stage.steps :
           ~MissesUpstreamStep(stage.steps[j].name, SubSeq(Names(stage.steps), 1, j - 1))
    /\ (/\ lastcall.op = "add_step"
        /\ lastcall.stage \in DOMAIN dependencies.STEPS_PER_STAGE
        /\ MissesUpstreamStep(lastcall.name, lastcall.pre))
           => /\ raised = "WorkflowDescriptionError"
              /\ Names(Target.steps) = lastcall.pre
    /\ (/\ lastcall.op = "add_step"
        /\ lastcall.name \in DeclaredSteps(lastcall.stage)
        /\ lastcall.name \notin Range(lastcall.pre)
        /\ ~MissesUpstreamStep(lastcall.name, lastcall.pre))
           => /\ raised = "ok"
              /\ Names(Target.steps) = Append(lastcall.pre, lastcall.name)

\* "a", which requires "b", was appended after "b"; before that it was
\* rejected while "b" was missing
C9_Witness ==
    /\ lastcall.op = "add_step"
    /\ lastcall.name = "a"
    /\ lastcall.pre = <<"b">>
    /\ MissesUpstreamStep("a", <<>>)
    /\ raised = "ok"
    /\ Names(Target.steps) = <<"b", "a">>

(***************************************************************************)
(* Serialization: descriptions with other than default values are built    *)
(* and rebuilt from what to_dict() returns.                                *)
(***************************************************************************)
\* an argument group of a step with its one field set to a value
ArgsOf(name, group, value) ==
    NewArgs(get_step_args(name)[group], [n \in Range(get_step_args(name)[group]) |-> value]).val

\* the steps a caller passes: active or not, argument groups given or left
\* to their defaults, "b" being the step that declares extra arguments
RoundTripSteps ==
    {WorkflowStepDescription("a", TRUE, <<>>, <<>>, <<>>),
     WorkflowStepDescription("a", FALSE, <<ArgsOf("a", "BatchArgs", "v1")>>, <<>>, <<>>),
     WorkflowStepDescription("b", TRUE, <<>>, <<ArgsOf("b", "SubmissionArgs", "v1")>>,
                             <<[fields |-> <<"pipeline">>, values |-> <<"v1">>]>>),
     WorkflowStepDescription("c", FALSE, <<>>, <<ArgsOf("c", "SubmissionArgs", "v1")>>, <<>>)}

\* a declaration without dependencies and one with: "s2" requires "s1"
\* upstream and "b" requires "a"
RoundTripDeclarations ==
    {d \in Declarations :
        \/ /\ d.INTER_STAGE_DEPENDENCIES = [n \in {"s1", "s2"} |-> {}]
           /\ d.INTRA_STAGE_DEPENDENCIES = <<>>
        \/ /\ d.INTER_STAGE_DEPENDENCIES = [n \in {"s1", "s2"} |-> IF n = "s2" THEN {"s1"} ELSE {}]
           /\ d.INTRA_STAGE_DEPENDENCIES = [n \in {"b"} |-> {"a"}]}

InitRoundTrip ==
    /\ InitEngine
    /\ InitWorkflow
    /\ IdleBatches
    /\ dependencies \in RoundTripDeclarations
    /\ IdleTiles
    /\ IdleFiles
    /\ IdlePlates
    /\ IdleLogging
    /\ IdleConfig
    /\ IdleData
    /\ IdleCorilla

NextRoundTrip ==
    \* an active sequential and an inactive parallel "s1", an active parallel
    \* and an inactive sequential "s2", each with an empty list of steps
    \/ \E name \in {"s1", "s2"}, active \in BOOLEAN :
           NewStage(name, IF active = (name = "s1") THEN "sequential" ELSE "parallel",
                    active, << <<>> >>)
    \/ \E step \in RoundTripSteps : AddStepToDraft(step)
    \/ \E i \in 1..2, step \in RoundTripSteps : AddStepToStage(i, step)
    \/ AddStage
    \/ Rebuild

SpecRoundTrip == InitRoundTrip /\ [][NextRoundTrip]_vars

\* every step description, as key-value pairs, of a to_dict() result
StepDicts(description) ==
    UNION {Range(description.stages[i].steps) : i \in DOMAIN description.stages}

MappingIds == 1..MaxMappings

SiteIds == 1..MaxSites

\* the tables: every record belongs to one site
MappingTables == [MappingIds -> SiteIds]

\* the sites that have mapping records
SitesOf(table) == {table[id] : id \in DOMAIN table}

\* the ascending sequence of the numbers of a finite set
RECURSIVE Ascending(_)
Ascending(S) ==
    IF S = {} THEN <<>>
    ELSE LET m == CHOOSE x \in S : \A y \in S : x <= y
         IN  <<m>> \o Ascending(S \ {m})

\* func.array_agg(ImageFileMapping.id) of the group of one site
array_agg(table, site) == Ascending({id \in DOMAIN table : table[id] = site})

\* the orders a dict may hold the given keys in
KeyOrders(keys) ==
    {o \in [1..Cardinality(keys) -> keys] : \A i, j \in DOMAIN o : i # j => o[i] # o[j]}

\* ClusterRoutines._create_batches(li, n): consecutive slices of at most n
\* elements of li
RECURSIVE _create_batches(_, _)
_create_batches(li, n) ==
    IF li = <<>> THEN <<>>
    ELSE IF Len(li) <= n THEN <<li>>
    ELSE <<SubSeq(li, 1, n)>> \o _create_batches(SubSeq(li, n + 1, Len(li)), n)

\* the lists of a batch all have the same length: numpy makes a
\* two-dimensional array of them
Rectangular(batch) == \A i, j \in DOMAIN batch : Len(batch[i]) = Len(batch[j])

RECURSIVE Concat(_)
Concat(lists) == IF lists = <<>> THEN <<>> ELSE Head(lists) \o Concat(Tail(lists))

\* list(np.array(batch).flat): the numbers of a two-dimensional array row
\* by row; of lists of different lengths numpy makes a one-dimensional
\* array of objects, whose elements are the lists themselves
Flat(batch) ==
    IF Rectangular(batch)
    THEN LET all == Concat(batch) IN [i \in DOMAIN all |-> [int |-> all[i]]]
    ELSE [i \in DOMAIN batch |-> [list |-> batch[i]]]

\* create_batches(args) is entered for some table and some arguments
InitBatches ==
    /\ mappings \in MappingTables
    /\ cb_args \in [batch_size : 1..MaxBatchSize, mip : BOOLEAN, delete : {FALSE}]
    /\ file_mappings_per_site = <<>>
    /\ batches = <<>>
    /\ job_count = 0
    /\ job_descriptions = [run |-> <<>>, collect |-> <<>>]
    /\ cb_pc = "query"

\* the query grouped by site_id, made a dict: its values come in the order
\* the dict holds the sites in
Query(order) ==
    /\ UNCHANGED outsideBatches
    /\ cb_pc = "query"
    /\ file_mappings_per_site' = [i \in DOMAIN order |-> array_agg(mappings, order[i])]
    /\ cb_pc' = "batches"
    /\ UNCHANGED <<mappings, cb_args, batches, job_count, job_descriptions>>

\* the call of _create_batches with one element too many in a batch
CreateBatchesTooLarge ==
    /\ UNCHANGED outsideBatches
    /\ cb_pc = "batches"
    /\ batches' = _create_batches(file_mappings_per_site, cb_args.batch_size + 1)
    /\ cb_pc' = "loop"
    /\ UNCHANGED <<mappings, cb_args, file_mappings_per_site, job_count, job_descriptions>>

\* batches = self._create_batches(file_mappings_per_site.values(),
\*                                args.batch_size)
CreateBatches ==
    /\ UNCHANGED outsideBatches
    /\ cb_pc = "batches"
    /\ batches' = _create_batches(file_mappings_per_site, cb_args.batch_size)
    /\ cb_pc' = "loop"
    /\ UNCHANGED <<mappings, cb_args, file_mappings_per_site, job_count, job_descriptions>>

\* the records the query with id.in_(ids) returns, ordered by id, for ids
\* that are numbers
QueryByIds(ids) == Ascending({ids[i].int : i \in DOMAIN ids})

\* one round of the loop over the batches: the job description is appended
\* to job_descriptions['run']. For ids that are lists what the query returns
\* is left to the database: no record here.
RunJob ==
    /\ UNCHANGED outsideBatches
    /\ cb_pc = "loop"
    /\ batches # <<>>
    /\ LET batch == Head(batches)
           ids == Flat(batch)
           fmappings == IF Rectangular(batch) THEN QueryByIds(ids) ELSE <<>>
       IN  /\ job_count' = job_count + 1
           /\ job_descriptions' =
                  [job_descriptions EXCEPT !.run = Append(@,
                      [id |-> job_count + 1,
                       inputs |-> [microscope_image_files |-> fmappings],
                       image_file_mapping_ids |-> ids,
                       mip |-> cb_args.mip])]
    /\ batches' = Tail(batches)
    /\ UNCHANGED <<mappings, cb_args, file_mappings_per_site, cb_pc>>

\* one round of the loop over the batches in which the database rejects
\* the comparison of the id column with lists: create_batches raises
RunJobQueryRaises ==
    /\ UNCHANGED outsideBatches
    /\ cb_pc = "loop"
    /\ batches # <<>>
    /\ ~Rectangular(Head(batches))
    /\ cb_pc' = "raised"
    /\ UNCHANGED <<mappings, cb_args, file_mappings_per_site, batches, job_count,
                   job_descriptions>>

\* after the loop: job_descriptions['collect'] is set and the descriptions
\* are returned
Collect ==
    /\ UNCHANGED outsideBatches
    /\ cb_pc = "loop"
    /\ batches = <<>>
    /\ job_descriptions' = [job_descriptions EXCEPT
           !.collect = <<[inputs |-> <<>>, outputs |-> <<>>, delete |-> cb_args.delete]>>]
    /\ cb_pc' = "done"
    /\ UNCHANGED <<mappings, cb_args, file_mappings_per_site, batches, job_count>>

NextBatches ==
    \/ \E order \in KeyOrders(SitesOf(mappings)) : Query(order)
    \/ CreateBatches
    \/ RunJob
    \/ RunJobQueryRaises
    \/ Collect

\* create_batches is entered; the engine and the workflow are not in use
InitExtract ==
    /\ InitEngine
    /\ IdleWorkflow
    /\ InitBatches
    /\ IdleTiles
    /\ IdleFiles
    /\ IdlePlates
    /\ IdleLogging
    /\ IdleConfig
    /\ IdleData
    /\ IdleCorilla

SpecBatches == InitExtract /\ [][NextBatches]_vars

\* the record ids a job description is built from: the numbers among its
\* image_file_mapping_ids and the numbers inside the lists among them
RecordsOf(job) ==
    LET ids == job.image_file_mapping_ids
    IN  UNION {IF "int" \in DOMAIN ids[i] THEN {ids[i].int} ELSE Range(ids[i].list) :
                   i \in DOMAIN ids}

\* the sites whose mapping records a job description is built from
SitesOfJob(job) == {mappings[id] : id \in RecordsOf(job)}

\* the record ids a job description lists as its image_file_mapping_ids
ListedIn(job) ==
    LET ids == job.image_file_mapping_ids
    IN  {id \in MappingIds : \E i \in DOMAIN ids : ids[i] = [int |-> id]}

(***************************************************************************)
(* C11 as stated: no run job description that create_batches returns holds *)
(* mapping records of two different sites.                                 *)
(***************************************************************************)
C11_AsStated ==
    cb_pc = "done" =>
        \A i \in DOMAIN job_descriptions.run :
            Cardinality(SitesOfJob(job_descriptions.run[i])) <= 1

(***************************************************************************)
(* C11: every run job description is built from the mapping records of at  *)
(* least one and at most batch_size sites: of one site when batch_size is  *)
(* 1, and of all the records of each of its sites.                         *)
(***************************************************************************)
C11_AtMostBatchSizeSites ==
    \A i \in DOMAIN job_descriptions.run :
        LET job == job_descriptions.run[i]
        IN  /\ Cardinality(SitesOfJob(job)) >= 1
            /\ Cardinality(SitesOfJob(job)) <= cb_args.batch_size
            /\ \A id \in MappingIds : mappings[id] \in SitesOfJob(job) => id \in RecordsOf(job)

\* the call returned a job of two sites and a job of one site
C11_Witness ==
    /\ cb_pc = "done"
    /\ cb_args.batch_size = 2
    /\ Len(job_descriptions.run) = 2
    /\ Cardinality(SitesOfJob(job_descriptions.run[1])) = 2
    /\ Cardinality(SitesOfJob(job_descriptions.run[2])) = 1

(***************************************************************************)
(* C12: create_batches returns, and the run jobs it returns partition the  *)
(* mapping records: every record id is listed by exactly one run job, all  *)
(* the records of a site by the same job, and the job ids are 1..N.        *)
(***************************************************************************)
C12_JobsPartitionRecords ==
    /\ cb_pc # "raised"
    /\ cb_pc = "done" =>
           LET run == job_descriptions.run
           IN  /\ \A id \in MappingIds :
                      Cardinality({i \in DOMAIN run : id \in ListedIn(run[i])}) = 1
               /\ \A id1, id2 \in MappingIds : mappings[id1] = mappings[id2] =>
                      \A i \in DOMAIN run : id1 \in ListedIn(run[i]) <=> id2 \in ListedIn(run[i])
               /\ \A i \in DOMAIN run : run[i].id = i

(***************************************************************************)
(* ChannelLayerTile.add (src/tmlib/models/tile.py): the upsert of one row  *)
(* of the table channel_layer_tiles, whose primary key is                  *)
(* (y, channel_layer_id, z, x).                                            *)
(***************************************************************************)
\* the keys of the model: they differ from the first in channel_layer_id,
\* in z, and in y and x
TileKeys ==
    {[channel_layer_id |-> 1, z |-> 0, y |-> 0, x |-> 0],
     [channel_layer_id |-> 2, z |-> 0, y |-> 0, x |-> 0],
     [channel_layer_id |-> 1, z |-> 1, y |-> 0, x |-> 0],
     [channel_layer_id |-> 1, z |-> 0, y |-> 1, x |-> 1]}

\* the JPEG-encoded arrays a tile may hold in _pixels
EncodedPixels == {"jpegA", "jpegB"}

\* ndarray.tostring(): the bytes of the array
tostring(array) == <<"bytes", array>>

Row(key, pixels) ==
    [channel_layer_id |-> key.channel_layer_id, z |-> key.z, y |-> key.y,
     x |-> key.x, pixels |-> pixels]

KeyOf(row) == [channel_layer_id |-> row.channel_layer_id, z |-> row.z, y |-> row.y, x |-> row.x]

\* the constraint channel_layer_tiles_pkey
PrimaryKey(rows) == \A r1, r2 \in rows : KeyOf(r1) = KeyOf(r2) => r1 = r2

\* the tables: any rows of the model's keys that satisfy the primary key
TileTables ==
    {rows \in SUBSET {Row(k, tostring(p)) : k \in TileKeys, p \in EncodedPixels} :
        PrimaryKey(rows)}

\* the tiles a caller may pass: _pixels is <<>> (None) for a tile that was
\* given no pixels
Tiles ==
    {[key |-> k, _pixels |-> p] : k \in TileKeys, p \in {<<>>} \cup {<<e>> : e \in EncodedPixels}}

\* INSERT INTO channel_layer_tiles ... VALUES ... without a conflict clause
\* and without the constraint
Insert(rows, key, pixels) == rows \cup {Row(key, pixels)}

\* INSERT INTO channel_layer_tiles ... VALUES ...
\*     ON CONFLICT ON CONSTRAINT channel_layer_tiles_pkey
\*     DO UPDATE SET pixels = ...
Upsert(rows, key, pixels) ==
    IF \E r \in rows : KeyOf(r) = key
    THEN {IF KeyOf(r) = key THEN [r EXCEPT !.pixels = pixels] ELSE r : r \in rows}
    ELSE rows \cup {Row(key, pixels)}

\* some table, before any add
InitTiles ==
    /\ channel_layer_tiles \in TileTables
    /\ tile_raised = "ok"
    /\ tile_calls = <<>>
    /\ nadds = 0

\* the latest two calls
LatestTwo(calls) == IF Len(calls) <= 2 THEN calls ELSE Tail(calls)

\* ChannelLayerTile.add(connection, tile): the parameters of the statement
\* are built first, and None has no tostring
Add(tile) ==
    /\ UNCHANGED outsideTiles
    /\ nadds < MaxAdds
    /\ nadds' = nadds + 1
    /\ tile_calls' = LatestTwo(Append(tile_calls, [tile |-> tile, on |-> channel_layer_tiles]))
    /\ IF tile._pixels = <<>>
       THEN /\ tile_raised' = "AttributeError"
            /\ UNCHANGED channel_layer_tiles
       ELSE /\ tile_raised' = "ok"
            /\ channel_layer_tiles' =
                   Upsert(channel_layer_tiles, tile.key, tostring(tile._pixels[1]))

NextTiles == \E tile \in Tiles : Add(tile)

InitAdd ==
    /\ InitEngine
    /\ IdleWorkflow
    /\ IdleBatches
    /\ InitTiles
    /\ IdleFiles
    /\ IdlePlates
    /\ IdleLogging
    /\ IdleConfig
    /\ IdleData
    /\ IdleCorilla

SpecTiles == InitAdd /\ [][NextTiles]_vars

\* the rows with a key
RowsOf(rows, key) == {r \in rows : KeyOf(r) = key}

(***************************************************************************)
(* C13: two add calls with the same key and different pixel payloads, on   *)
(* any table, leave exactly one row for the key, which holds the second    *)
(* payload, and every row of another key as it was; a further add with the *)
(* same key and the same payload leaves the table as the add before it     *)
(* left it.                                                                *)
(***************************************************************************)
C13_Upsert ==
    (/\ Len(tile_calls) = 2
     /\ tile_calls[1].tile.key = tile_calls[2].tile.key
     /\ tile_calls[1].tile._pixels # <<>>
     /\ tile_calls[2].tile._pixels # <<>>)
        => LET key == tile_calls[2].tile.key
               first == tile_calls[1].tile._pixels[1]
               second == tile_calls[2].tile._pixels[1]
               before == tile_calls[1].on
               between == tile_calls[2].on
           IN  /\ RowsOf(channel_layer_tiles, key) = {Row(key, tostring(second))}
               /\ channel_layer_tiles \ RowsOf(channel_layer_tiles, key)
                      = before \ RowsOf(before, key)
               /\ first = second => channel_layer_tiles = between

\* a row that held one payload was given a second and then a third one,
\* next to a row of another key
C13_Witness ==
    /\ Len(tile_calls) = 2
    /\ tile_calls[1].tile.key = tile_calls[2].tile.key
    /\ tile_calls[1].tile._pixels = <<"jpegA">>
    /\ tile_calls[2].tile._pixels = <<"jpegB">>
    /\ RowsOf(tile_calls[1].on, tile_calls[1].tile.key) # {}
    /\ Cardinality(channel_layer_tiles) >= 2
    /\ tile_raised = "ok"

(***************************************************************************)
(* ChannelImageFile (src/tmlib/models/file.py).                            *)
(*                                                                         *)
(* The dataset store (DatasetReader, DatasetWriter) and ChannelImage are   *)
(* imported by file.py; they are modelled from the specification: a store  *)
(* of named datasets, one per plane and named z_<index>, that write adds   *)
(* to or replaces in, that truncate empties and that list_datasets lists.  *)
(* An array is [ndim |-> 2 or 3, planes |-> its planes in z order].        *)
(***************************************************************************)
\* the plane z of the image with the given content
Plane(content, z) == <<content, z>>

\* ChannelImage: the array of an image of n planes
Image(content, n) == [ndim |-> 3, planes |-> [i \in 1..n |-> Plane(content, i - 1)]]

\* image.dimensions[2]
Depth(array) == Len(array.planes)

\* image.iter_planes(): the z index and the 2D array of each plane
iter_planes(array) ==
    [i \in DOMAIN array.planes |-> [z |-> i - 1, plane |-> [ndim |-> 2, planes |-> <<array.planes[i]>>]]]

\* np.dstack(pixels): the planes of the arrays one after another
RECURSIVE dstack(_)
dstack(pixels) ==
    IF pixels = <<>> THEN <<>> ELSE Head(pixels).planes \o dstack(Tail(pixels))

\* the decimal digits of a number
RECURSIVE Digits(_)
Digits(n) == IF n < 10 THEN <<n>> ELSE Digits(n \div 10) \o <<n % 10>>

\* 'z_%d' % z
DatasetName(z) == <<"z_">> \o Digits(z)

\* the order of two digit strings as strings
RECURSIVE StringLess(_, _)
StringLess(a, b) ==
    IF a = <<>> THEN b # <<>>
    ELSE IF b = <<>> THEN FALSE
    ELSE IF Head(a) # Head(b) THEN Head(a) < Head(b)
    ELSE StringLess(Tail(a), Tail(b))

\* the names of the datasets after the prefix z_
Suffix(name) == Tail(name)

\* f.write(name, data): the dataset is created, or its data replaced
write(store, name, data) ==
    IF \E i \in DOMAIN store : store[i].name = name
    THEN [i \in DOMAIN store |->
             IF store[i].name = name THEN [store[i] EXCEPT !.data = data] ELSE store[i]]
    ELSE Append(store, [name |-> name, data |-> data])

\* the datasets sorted by name
RECURSIVE ByName(_)
ByName(store) ==
    IF store = <<>> THEN <<>>
    ELSE LET m == CHOOSE i \in DOMAIN store : \A j \in DOMAIN store :
                      j # i => StringLess(Suffix(store[i].name), Suffix(store[j].name))
         IN  <<store[m]>> \o ByName([k \in 1..(Len(store) - 1) |->
                                        IF k < m THEN store[k] ELSE store[k + 1]])

\* f.list_datasets(pattern='z_\d+'): the store lists its datasets by name
\* or in the order they were created
Listings(store) == {ByName(store), store}

\* the images put: one plane, two planes and the largest number of planes
Images == {Image(c, n) : c \in {"A", "B"}, n \in {1, 2, MaxPlanes}}

\* the z indices given to put and get
ZIndices == {0, 1, MaxPlanes - 1}

\* ChannelImageFile.__init__: no plane is stored
InitFiles ==
    /\ datasets = <<>>
    /\ _n_planes = 0
    /\ file_raised = "ok"
    /\ got = <<>>
    /\ file_calls = <<>>
    /\ nputs = 0

\* the history keeps the latest two calls
LatestCalls(call_) ==
    IF Len(file_calls) < 2 THEN Append(file_calls, call_)
    ELSE <<file_calls[2], call_>>

\* a put(image, z) that adds one to n_planes instead of counting the datasets
PutPlaneCounting(image, z) ==
    /\ nputs < MaxPuts
    /\ nputs' = nputs + 1
    /\ file_calls' = LatestCalls([op |-> "put", image |-> image, z |-> <<z>>, on |-> datasets])
    /\ got' = <<>>
    /\ IF Depth(image) > 1
       THEN /\ file_raised' = "ValueError"
            /\ UNCHANGED <<datasets, _n_planes>>
       ELSE /\ datasets' = write(datasets, DatasetName(z), image)
            /\ _n_planes' = _n_planes + 1
            /\ file_raised' = "ok"
    /\ UNCHANGED outsideFiles

\* ChannelImageFile.put(image, z): the plane is written to dataset z_<z>
PutPlane(image, z) ==
    /\ nputs < MaxPuts
    /\ nputs' = nputs + 1
    /\ file_calls' = LatestCalls([op |-> "put", image |-> image, z |-> <<z>>, on |-> datasets])
    /\ got' = <<>>
    /\ IF Depth(image) > 1
       THEN /\ file_raised' = "ValueError"
            /\ UNCHANGED <<datasets, _n_planes>>
       ELSE /\ datasets' = write(datasets, DatasetName(z), image)
            /\ \E listing \in Listings(datasets') : _n_planes' = Len(listing)
            /\ file_raised' = "ok"
    /\ UNCHANGED outsideFiles

\* the datasets after the planes of the image were written one by one
RECURSIVE WriteAll(_, _)
WriteAll(store, planes) ==
    IF planes = <<>> THEN store
    ELSE WriteAll(write(store, DatasetName(Head(planes).z), Head(planes).plane), Tail(planes))

\* ChannelImageFile.put(image): the file is truncated and all planes replaced
PutImage(image) ==
    /\ nputs < MaxPuts
    /\ nputs' = nputs + 1
    /\ file_calls' = LatestCalls([op |-> "put", image |-> image, z |-> <<>>, on |-> datasets])
    /\ got' = <<>>
    /\ datasets' = WriteAll(<<>>, iter_planes(image))
    /\ _n_planes' = Depth(image)
    /\ file_raised' = "ok"
    /\ UNCHANGED outsideFiles

\* ChannelImageFile.get(z): the dataset z_<z> is read
GetPlane(z) ==
    /\ file_calls # <<>>
    /\ file_calls[Len(file_calls)].op = "put"
    /\ file_calls' = LatestCalls([op |-> "get", image |-> <<>>, z |-> <<z>>, on |-> datasets])
    /\ IF \E i \in DOMAIN datasets : datasets[i].name = DatasetName(z)
       THEN /\ got' = <<(CHOOSE d \in Range(datasets) : d.name = DatasetName(z)).data>>
            /\ file_raised' = "ok"
       ELSE /\ got' = <<>>
            /\ file_raised' = "KeyError"
    /\ UNCHANGED <<datasets, _n_planes, nputs>>
    /\ UNCHANGED outsideFiles

\* ChannelImageFile.get(): all datasets are read as listed and stacked
GetImage ==
    /\ file_calls # <<>>
    /\ file_calls[Len(file_calls)].op = "put"
    /\ file_calls' = LatestCalls([op |-> "get", image |-> <<>>, z |-> <<>>, on |-> datasets])
    /\ IF datasets = <<>>
       THEN /\ got' = <<>>
            /\ file_raised' = "ValueError"
       ELSE /\ \E listing \in Listings(datasets) :
                   got' = <<[ndim |-> 3,
                             planes |-> dstack([i \in DOMAIN listing |-> listing[i].data])]>>
            /\ file_raised' = "ok"
    /\ UNCHANGED <<datasets, _n_planes, nputs>>
    /\ UNCHANGED outsideFiles

NextFiles ==
    \/ \E image \in Images, z \in ZIndices : PutPlane(image, z)
    \/ \E image \in Images : PutImage(image)
    \/ \E z \in ZIndices : GetPlane(z)
    \/ GetImage

InitPutGet ==
    /\ InitEngine
    /\ IdleWorkflow
    /\ IdleBatches
    /\ IdleTiles
    /\ InitFiles
    /\ IdlePlates
    /\ IdleLogging
    /\ IdleConfig
    /\ IdleData
    /\ IdleCorilla

SpecFiles == InitPutGet /\ [][NextFiles]_vars

\* the names of the datasets in the file
DatasetNames == {datasets[i].name : i \in DOMAIN datasets}

\* C14: after any sequence of put(image) and put(image, z) calls, rejected
\* ones included, n_planes equals the number of z_<index> datasets present in
\* the file, and a put(image, z) rejected for a multi-plane image changes
\* neither the datasets nor n_planes.
C14_PlaneCount ==
    /\ _n_planes = Cardinality(DatasetNames)
    /\ Len(datasets) = Cardinality(DatasetNames)
    /\ \A i \in DOMAIN file_calls :
           /\ file_calls[i].op = "put"
           /\ file_calls[i].z # <<>>
           /\ Depth(file_calls[i].image) > 1
           => IF i = Len(file_calls)
              THEN datasets = file_calls[i].on /\ file_raised = "ValueError"
              ELSE file_calls[i + 1].on = file_calls[i].on

\* a put(plane, z) replaced a dataset and a put(image, z) was rejected
C14_Witness ==
    /\ Len(file_calls) = 2
    /\ file_calls[1].op = "put" /\ file_calls[1].z # <<>>
    /\ Depth(file_calls[1].image) = 1
    /\ \E i \in DOMAIN file_calls[1].on :
           file_calls[1].on[i].name = DatasetName(file_calls[1].z[1])
    /\ file_calls[2].op = "put" /\ file_calls[2].z # <<>>
    /\ Depth(file_calls[2].image) > 1
    /\ file_raised = "ValueError"
    /\ _n_planes > 0

\* the data of the dataset of the given name, if there is one
Stored(store, name) == {d.data : d \in {e \in Range(store) : e.name = name}}

\* C15: put(image) followed by get() returns the planes of image in their
\* z order and nothing else, with n_planes the number of planes of image;
\* put(plane, z=k) followed by get(z=k) returns that plane, and every other
\* stored plane is as it was before the put.
C15_PutThenGet ==
    /\ Len(file_calls) = 2
    /\ file_calls[1].op = "put" /\ file_calls[2].op = "get"
    /\ file_calls[1].z = file_calls[2].z
    /\ file_calls[1].z # <<>> => Depth(file_calls[1].image) = 1
    => /\ file_raised = "ok"
       /\ got # <<>>
       /\ IF file_calls[1].z = <<>>
          THEN /\ got[1].planes = file_calls[1].image.planes
               /\ _n_planes = Depth(file_calls[1].image)
          ELSE /\ got[1] = file_calls[1].image
               /\ \A z \in 0..(MaxPlanes - 1) :
                      z # file_calls[1].z[1]
                      => Stored(datasets, DatasetName(z))
                             = Stored(file_calls[1].on, DatasetName(z))

(***************************************************************************)
(* Plate.status (src/src/tmlib/models/plate.py).                           *)
(***************************************************************************)
\* FileUploadStatus
WAITING == "WAITING"

UPLOADING == "UPLOADING"

COMPLETE == "COMPLETE"

FileUploadStatus == {WAITING, UPLOADING, COMPLETE}

\* a status that is COMPLETE as soon as one acquisition is
statusAnyComplete(acqs) ==
    LET child_status == {acqs[i] : i \in DOMAIN acqs}
    IN  IF UPLOADING \in child_status THEN UPLOADING
        ELSE IF COMPLETE \in child_status THEN COMPLETE
        ELSE WAITING

\* Plate.status
status(acqs) ==
    LET child_status == {acqs[i] : i \in DOMAIN acqs}
    IN  IF UPLOADING \in child_status THEN UPLOADING
        ELSE IF Cardinality(child_status) = 1 /\ COMPLETE \in child_status THEN COMPLETE
        ELSE WAITING

\* a plate without acquisitions
InitPlates ==
    /\ acquisitions = <<>>
    /\ plate_status = <<>>

\* an acquisition is registered for the plate
AddAcquisition(upload_status) ==
    /\ Len(acquisitions) < MaxAcquisitions
    /\ acquisitions' = Append(acquisitions, upload_status)
    /\ plate_status' = <<>>
    /\ UNCHANGED outsidePlates

\* the upload of an acquisition starts, completes or is reset
SetUploadStatus(i, upload_status) ==
    /\ i \in DOMAIN acquisitions
    /\ acquisitions[i] # upload_status
    /\ acquisitions' = [acquisitions EXCEPT ![i] = upload_status]
    /\ plate_status' = <<>>
    /\ UNCHANGED outsidePlates

\* plate.status is read
ReadStatus ==
    /\ plate_status = <<>>
    /\ plate_status' = <<status(acquisitions)>>
    /\ UNCHANGED acquisitions
    /\ UNCHANGED outsidePlates

NextPlates ==
    \/ \E s \in FileUploadStatus : AddAcquisition(s)
    \/ \E i \in 1..MaxAcquisitions, s \in FileUploadStatus : SetUploadStatus(i, s)
    \/ ReadStatus

InitPlate ==
    /\ InitEngine
    /\ IdleWorkflow
    /\ IdleBatches
    /\ IdleTiles
    /\ IdleFiles
    /\ InitPlates
    /\ IdleLogging
    /\ IdleConfig
    /\ IdleData
    /\ IdleCorilla

SpecPlates == InitPlate /\ [][NextPlates]_vars

\* C16: the status of a plate is UPLOADING if at least one acquisition is
\* UPLOADING; COMPLETE if it has at least one acquisition and all are
\* COMPLETE; WAITING otherwise, which includes a plate without acquisitions
\* and a mix of WAITING and COMPLETE acquisitions.
C16_PlateStatus ==
    plate_status # <<>> =>
        LET uploading == \E i \in DOMAIN acquisitions : acquisitions[i] = UPLOADING
            complete  == /\ acquisitions # <<>>
                         /\ \A i \in DOMAIN acquisitions : acquisitions[i] = COMPLETE
        IN  /\ uploading => plate_status[1] = UPLOADING
            /\ ~uploading /\ complete => plate_status[1] = COMPLETE
            /\ ~uploading /\ ~complete => plate_status[1] = WAITING

\* the status of a plate with WAITING and COMPLETE acquisitions was read
C16_Witness ==
    /\ plate_status = <<WAITING>>
    /\ \E i \in DOMAIN acquisitions : acquisitions[i] = COMPLETE
    /\ \E i \in DOMAIN acquisitions : acquisitions[i] = WAITING

(***************************************************************************)
(* map_logging_verbosity (src/tmlib/logging_utils.py).                     *)
(***************************************************************************)
\* the levels of the logging module that the tables name
LoggingLevels == {"WARN", "ERROR", "CRITICAL", "INFO", "DEBUG", "NOTSET"}

VERBOSITY_TO_LEVELS ==
    [v \in 0..3 |-> CASE v = 0 -> "WARN"
                      [] v = 1 -> "INFO"
                      [] v = 2 -> "DEBUG"
                      [] v = 3 -> "NOTSET"]

LEVELS_TO_VERBOSITY ==
    [l \in LoggingLevels |-> CASE l = "WARN" -> 0
                               [] l = "ERROR" -> 0
                               [] l = "CRITICAL" -> 0
                               [] l = "INFO" -> 1
                               [] l = "DEBUG" -> 2
                               [] l = "NOTSET" -> 3]

\* len(VERBOSITY_TO_LEVELS)
DictLen(d) == Cardinality(DOMAIN d)

\* a mapping that does not reject a negative verbosity
map_logging_verbosityUnchecked(verbosity) ==
    LET v == IF verbosity > DictLen(VERBOSITY_TO_LEVELS)
             THEN DictLen(VERBOSITY_TO_LEVELS) - 1 ELSE verbosity
    IN  Ok(IF v \in DOMAIN VERBOSITY_TO_LEVELS THEN VERBOSITY_TO_LEVELS[v] ELSE "NOTSET")

\* map_logging_verbosity, for a verbosity of type int
map_logging_verbosity(verbosity) ==
    IF ~(verbosity >= 0) THEN Raise("ValueError", "verbosity")
    ELSE LET v == IF verbosity > DictLen(VERBOSITY_TO_LEVELS)
                  THEN DictLen(VERBOSITY_TO_LEVELS) - 1 ELSE verbosity
         IN  Ok(IF v \in DOMAIN VERBOSITY_TO_LEVELS THEN VERBOSITY_TO_LEVELS[v] ELSE "NOTSET")

\* the verbosities given
Verbosities == (0 - MaxVerbosity)..MaxVerbosity

InitLogging ==
    log_calls = <<>>

\* map_logging_verbosity(verbosity) is called
MapVerbosity(verbosity) ==
    /\ Len(log_calls) < MaxLogCalls
    /\ log_calls' = Append(log_calls, [op |-> "map", verbosity |-> <<verbosity>>,
                                       level |-> <<>>,
                                       ret |-> map_logging_verbosity(verbosity)])
    /\ UNCHANGED outsideLogging

\* LEVELS_TO_VERBOSITY[level] is looked up
LookupLevel(level) ==
    /\ Len(log_calls) < MaxLogCalls
    /\ log_calls' = Append(log_calls, [op |-> "lookup", verbosity |-> <<>>,
                                       level |-> <<level>>,
                                       ret |-> Ok(LEVELS_TO_VERBOSITY[level])])
    /\ UNCHANGED outsideLogging

NextLogging ==
    \/ \E v \in Verbosities : MapVerbosity(v)
    \/ \E l \in LoggingLevels : LookupLevel(l)

InitVerbosity ==
    /\ InitEngine
    /\ IdleWorkflow
    /\ IdleBatches
    /\ IdleTiles
    /\ IdleFiles
    /\ IdlePlates
    /\ InitLogging
    /\ IdleConfig
    /\ IdleData
    /\ IdleCorilla

SpecLogging == InitVerbosity /\ [][NextLogging]_vars

\* the level the documentation gives for a verbosity of 0 to 3
DocumentedLevel(v) ==
    CASE v = 0 -> "WARN" [] v = 1 -> "INFO" [] v = 2 -> "DEBUG" [] v = 3 -> "NOTSET"

\* C17: map_logging_verbosity(v) fails for a negative v, returns WARN, INFO,
\* DEBUG and NOTSET (no filtering) for 0, 1, 2 and 3, and gives a v above 3
\* the level of 3; the inverse table maps each of these four levels back to
\* its verbosity.
C17_VerbosityMapping ==
    \A i \in DOMAIN log_calls :
        LET c == log_calls[i] IN
        /\ c.op = "map" =>
               LET v == c.verbosity[1] IN
               /\ v < 0 => c.ret.err = "ValueError"
               /\ v \in 0..3 => c.ret = Ok(DocumentedLevel(v))
               /\ v > 3 => c.ret = Ok(DocumentedLevel(3))
        /\ c.op = "lookup" =>
               \A v \in 0..3 : c.level[1] = DocumentedLevel(v) => c.ret = Ok(v)
        /\ /\ c.op = "lookup"
           /\ i > 1
           /\ log_calls[i - 1].op = "map"
           /\ log_calls[i - 1].verbosity[1] \in 0..3
           /\ log_calls[i - 1].ret = Ok(c.level[1])
           => c.ret = Ok(log_calls[i - 1].verbosity[1])

\* a negative verbosity was rejected and a verbosity above 3 mapped
C17_Witness ==
    /\ Len(log_calls) = 2
    /\ log_calls[1].op = "map" /\ log_calls[1].verbosity[1] < 0
    /\ log_calls[1].ret.err = "ValueError"
    /\ log_calls[2].op = "map" /\ log_calls[2].verbosity[1] > 3
    /\ log_calls[2].ret = Ok("NOTSET")

(***************************************************************************)
(* UserConfiguration (src/src/tmlib/cfg.py).                               *)
(*                                                                         *)
(* A Python value is a record tagged with its type: [none |-> "None"],     *)
(* [str |-> s], [int |-> n], [dict |-> d]; a path is the sequence of its   *)
(* components.  An attribute that was never assigned is <<>>.              *)
(***************************************************************************)
_PERSISTENT_ATTRS == {"sources_dir", "plates_dir", "layers_dir", "plate_format", "workflow"}

\* Plate.SUPPORTED_PLATE_FORMATS
SUPPORTED_PLATE_FORMATS == {1, 96, 384}

None == [none |-> "None"]

IsNone(v) == DOMAIN v = {"none"}

IsStr(v) == DOMAIN v = {"str"}

IsInt(v) == DOMAIN v = {"int"}

\* the keys of the settings; other_key is not a persistent attribute
SettingsKeys == _PERSISTENT_ATTRS \cup {"other_key"}

\* the values a settings mapping gives to a key
SettingsValues(k) ==
    IF k \in {"sources_dir", "plates_dir", "layers_dir"}
    THEN {None, [str |-> "/data"]}
    ELSE IF k = "plate_format" THEN {[int |-> 96], [int |-> 2], [str |-> "96"]}
    ELSE IF k = "workflow" THEN {[dict |-> [stages |-> <<>>]], [dict |-> [stages |-> << <<>> >>]]}
    ELSE {[str |-> "x"]}

\* cfg_settings: each key is missing (<<>>) or has a value
Settings ==
    {st \in [SettingsKeys -> UNION {{<<v>> : v \in SettingsValues(k)} \cup {<<>>} : k \in SettingsKeys}] :
        \A k \in SettingsKeys : st[k] # <<>> => st[k][1] \in SettingsValues(k)}

\* WorkflowDescription(**kwargs) of cfg.py, for a description whose stages,
\* if given, is the empty list
LegacyWorkflowDescription(kwargs) ==
    IF kwargs.stages = <<>> THEN Raise("KeyError", "stages")
    ELSE Ok([_stages |-> kwargs.stages[1], virtualenv |-> None, verbosity |-> 1])

\* dict(workflow): WorkflowDescription.__iter__ of cfg.py
LegacyWorkflowDescription_to_dict(obj) ==
    [stages |-> [i \in DOMAIN obj._stages |-> obj._stages[i]]]

\* the exceptions the assignment of a setting can raise; none if it is accepted
SetterErrors(k, v) ==
    IF k \in {"sources_dir", "plates_dir", "layers_dir"}
    THEN IF IsStr(v) \/ IsNone(v) THEN {} ELSE {"TypeError"}
    ELSE IF k = "plate_format"
    THEN IF ~IsInt(v) THEN {"TypeError"}
         ELSE IF v.int \notin SUPPORTED_PLATE_FORMATS
         \* the message joins the supported formats, which fails for numbers
         THEN {"ValueError", "TypeError"}
         ELSE {}
    ELSE IF k = "workflow"
    THEN IF LegacyWorkflowDescription(v.dict).err = "ok" THEN {} ELSE {"KeyError"}
    ELSE {}

\* the object after UserConfiguration.__init__ assigned the accepted settings
Configured(experiment_dir, st) ==
    LET dir(k) == IF st[k] = <<>> \/ IsNone(st[k][1]) THEN <<>> ELSE << <<st[k][1].str>> >>
    IN  [experiment_dir |-> experiment_dir,
         _sources_dir |-> dir("sources_dir"),
         _plates_dir |-> dir("plates_dir"),
         _layers_dir |-> dir("layers_dir"),
         _plate_format |-> IF st["plate_format"] = <<>> THEN <<>>
                           ELSE <<st["plate_format"][1].int>>,
         _workflow |-> IF st["workflow"] = <<>> THEN <<>>
                       ELSE <<LegacyWorkflowDescription(st["workflow"][1].dict).val>>]

\* the persistent attributes in the order of dir(self)
SortedAttrs == <<"layers_dir", "plate_format", "plates_dir", "sources_dir", "workflow">>

\* all attributes of dir(self) that the model has, in order
SortedDir == <<"experiment_dir", "layers_dir", "plate_format", "plates_dir", "sources_dir", "workflow">>

\* hasattr(self, attr)
hasattr(obj, attr) ==
    CASE attr = "plate_format" -> obj._plate_format # <<>>
      [] attr = "workflow" -> obj._workflow # <<>>
      [] OTHER -> TRUE

\* the object after getattr(self, attr): a directory that is not set gets
\* its default
AfterGet(obj, attr) ==
    CASE attr = "sources_dir" /\ obj._sources_dir = <<>> ->
             [obj EXCEPT !._sources_dir = << <<obj.experiment_dir, "sources">> >>]
      [] attr = "plates_dir" /\ obj._plates_dir = <<>> ->
             [obj EXCEPT !._plates_dir = << <<obj.experiment_dir, "plates">> >>]
      [] attr = "layers_dir" /\ obj._layers_dir = <<>> ->
             [obj EXCEPT !._layers_dir = << <<obj.experiment_dir, "layers">> >>]
      [] OTHER -> obj

\* the value __iter__ yields for an attribute that the object has
Yielded(obj, attr) ==
    CASE attr = "sources_dir" -> [path |-> AfterGet(obj, attr)._sources_dir[1]]
      [] attr = "plates_dir" -> [path |-> AfterGet(obj, attr)._plates_dir[1]]
      [] attr = "layers_dir" -> [path |-> AfterGet(obj, attr)._layers_dir[1]]
      [] attr = "plate_format" -> [int |-> obj._plate_format[1]]
      [] attr = "workflow" -> [dict |-> LegacyWorkflowDescription_to_dict(obj._workflow[1])]
      [] OTHER -> [path |-> <<obj.experiment_dir>>]

\* the iteration over the given attributes: the items yielded, the
\* exception that ended it and the object afterwards
RECURSIVE IterOver(_, _, _)
IterOver(obj, attrs, items) ==
    IF attrs = <<>> THEN [items |-> items, err |-> "ok", obj |-> obj]
    ELSE IF ~hasattr(obj, Head(attrs))
    THEN [items |-> items, err |-> "AttributeError", obj |-> obj]
    ELSE IterOver(AfterGet(obj, Head(attrs)), Tail(attrs),
                  Append(items, [attr |-> Head(attrs), value |-> Yielded(obj, Head(attrs))]))

\* an iteration that yields every attribute, persistent or not
UserConfiguration_iterAll(obj) == IterOver(obj, SortedDir, <<>>)

\* UserConfiguration.__iter__
UserConfiguration_iter(obj) == IterOver(obj, SortedAttrs, <<>>)

InitConfig ==
    /\ cfg = <<>>
    /\ cfg_settings = <<>>
    /\ cfg_raised = "ok"
    /\ cfg_iter = <<>>

\* UserConfiguration(experiment_dir, cfg_settings)
Construct(exists, st) ==
    /\ cfg = <<>>
    /\ cfg_settings = <<>>
    /\ cfg_settings' = <<st>>
    /\ cfg_iter' = <<>>
    /\ LET errors == UNION {SetterErrors(k, st[k][1]) : k \in {a \in _PERSISTENT_ATTRS : st[a] # <<>>}}
       IN  IF ~exists
           THEN cfg' = <<>> /\ cfg_raised' = "OSError"
           ELSE IF errors # {}
           THEN cfg' = <<>> /\ cfg_raised' \in errors
           ELSE cfg' = <<Configured("/exp", st)>> /\ cfg_raised' = "ok"
    /\ UNCHANGED outsideConfig

\* config.plate_format = value
SetPlateFormat(value) ==
    /\ cfg # <<>>
    /\ cfg_iter' = <<>>
    /\ IF SetterErrors("plate_format", value) # {}
       THEN cfg_raised' \in SetterErrors("plate_format", value) /\ UNCHANGED cfg
       ELSE cfg_raised' = "ok" /\ cfg' = <<[cfg[1] EXCEPT !._plate_format = <<value.int>>]>>
    /\ UNCHANGED cfg_settings
    /\ UNCHANGED outsideConfig

\* dict(config) or list(config): the object is iterated to the end
Iterate ==
    /\ cfg # <<>>
    /\ cfg_iter = <<>>
    /\ LET r == UserConfiguration_iter(cfg[1])
       IN  /\ cfg_iter' = <<[items |-> r.items, err |-> r.err, on |-> cfg[1]]>>
           /\ cfg_raised' = r.err
           /\ cfg' = <<r.obj>>
    /\ UNCHANGED cfg_settings
    /\ UNCHANGED outsideConfig

NextConfig ==
    \/ \E exists \in BOOLEAN, st \in Settings : Construct(exists, st)
    \/ \E value \in SettingsValues("plate_format") : SetPlateFormat(value)
    \/ Iterate

InitUserConfiguration ==
    /\ InitEngine
    /\ IdleWorkflow
    /\ IdleBatches
    /\ IdleTiles
    /\ IdleFiles
    /\ IdlePlates
    /\ IdleLogging
    /\ InitConfig
    /\ IdleData
    /\ IdleCorilla

SpecConfig == InitUserConfiguration /\ [][NextConfig]_vars

\* the keys an iteration yielded
YieldedKeys == {cfg_iter[1].items[i].attr : i \in DOMAIN cfg_iter[1].items}

\* C18 as stated: the iteration of every constructed UserConfiguration ends
\* without error and yields exactly the five persistent keys, each once.
C18_AsStated ==
    cfg_iter # <<>> =>
        /\ cfg_iter[1].err = "ok"
        /\ YieldedKeys = _PERSISTENT_ATTRS
        /\ Len(cfg_iter[1].items) = Cardinality(_PERSISTENT_ATTRS)

\* C18: the iteration of a UserConfiguration whose plate_format and workflow
\* are set ends without error and yields exactly the five persistent keys,
\* each once, with its current value, a directory that is not set with its
\* default under the experiment directory; when plate_format or workflow is
\* not set the iteration raises AttributeError.  Keys outside the persistent
\* attributes are never yielded.
C18_IterWhenComplete ==
    cfg_iter # <<>> =>
        LET on == cfg_iter[1].on
            items == cfg_iter[1].items
            complete == on._plate_format # <<>> /\ on._workflow # <<>>
            current(attr) ==
                CASE attr = "sources_dir" ->
                         [path |-> IF on._sources_dir = <<>> THEN <<"/exp", "sources">>
                                   ELSE on._sources_dir[1]]
                  [] attr = "plates_dir" ->
                         [path |-> IF on._plates_dir = <<>> THEN <<"/exp", "plates">>
                                   ELSE on._plates_dir[1]]
                  [] attr = "layers_dir" ->
                         [path |-> IF on._layers_dir = <<>> THEN <<"/exp", "layers">>
                                   ELSE on._layers_dir[1]]
                  [] attr = "plate_format" -> [int |-> on._plate_format[1]]
                  [] attr = "workflow" -> [dict |-> [stages |-> on._workflow[1]._stages]]
        IN  /\ YieldedKeys \subseteq _PERSISTENT_ATTRS
            /\ Cardinality(YieldedKeys) = Len(items)
            /\ \A i \in DOMAIN items : items[i].value = current(items[i].attr)
            /\ complete => cfg_iter[1].err = "ok" /\ YieldedKeys = _PERSISTENT_ATTRS
            /\ ~complete => cfg_iter[1].err = "AttributeError"

\* a configuration with plate_format and workflow, without directories and
\* with a key that is not persistent was iterated
C18_Witness ==
    /\ cfg_iter # <<>>
    /\ cfg_iter[1].err = "ok"
    /\ cfg_iter[1].on._sources_dir = <<>>
    /\ cfg_settings[1]["other_key"] # <<>>
    /\ Len(cfg_iter[1].items) = 5

(***************************************************************************)
(* BgEngine: the informational methods (src/src/tmlib/engine.py).          *)
(*                                                                         *)
(* The methods are called from one thread, one after the other.  A dict    *)
(* is an object on the heap, referred to by its index, so that two names   *)
(* for one dict see each other's changes; its content is a function from   *)
(* its keys.  st is [heap, cache, clock], the state a call works on.       *)
(***************************************************************************)
\* the outcome of a call: the state it leaves, the dict it returns and the
\* exception it raises ("ok" if none)
Result(st, obj, err) == [st |-> st, obj |-> obj, err |-> err]

\* gc3libs.Run.State of the tasks of the model, with the exit code
RunStates ==
    {[state |-> "NEW", exitcode |-> 0], [state |-> "RUNNING", exitcode |-> 0],
     [state |-> "TERMINATED", exitcode |-> 0], [state |-> "TERMINATED", exitcode |-> 1]}

\* the task objects: t1 is a task or a collection of the task t2; a task
\* may carry a persistent_id; tasks is <<>> for a task without that attribute
TaskObjects ==
    {a \in [Tasks -> [run : RunStates, persistent_id : {<<>>, <<1>>, <<2>>},
                      tasks : {<<>>, << <<"t2">> >>}]] :
        /\ a["t2"].tasks = <<>>
        /\ a["t1"].persistent_id \in {<<>>, <<1>>}
        /\ a["t2"].persistent_id \in {<<>>, <<2>>}
        /\ a["t1"].run.state \in {"RUNNING", "TERMINATED"}
        /\ a["t2"].run.state \in {"NEW", "TERMINATED"}
        /\ a["t2"].run.exitcode = 0}

\* str(task.persistent_id)
str(n) == <<"str", n>>

\* RUNNING in task.execution.timestamp: the task has been running
HasRun(a) == a.run.state \in {"RUNNING", "TERMINATED"}

\* the number of terminated children of a collection
RECURSIVE Done(_, _)
Done(attrs, children) ==
    IF children = <<>> THEN 0
    ELSE (IF attrs[Head(children)].run.state = "TERMINATED" THEN 1 ELSE 0)
         + Done(attrs, Tail(children))

\* the body of task_data: a new dict
task_data_body(st, attrs, t) ==
    LET a == attrs[t]
        is_live == {"SUBMITTED", "RUNNING", "STOPPED"}
        is_done == a.run.state = "TERMINATED"
        percent_done ==
            IF ~HasRun(a) THEN None
            ELSE IF a.tasks # <<>>
            THEN [int |-> Done(attrs, a.tasks[1]) \div Len(a.tasks[1])]
            ELSE [float |-> "100.0 * runtime / requested_walltime"]
        data == [name |-> t, state |-> a.run.state,
                 is_live |-> a.run.state \in is_live,
                 is_done |-> is_done,
                 failed |-> is_done /\ a.run.exitcode # 0,
                 percent_done |-> percent_done]
        withid == IF a.persistent_id # <<>>
                  THEN DictSet(data, "id", str(a.persistent_id[1]))
                  ELSE data
    IN  Result([st EXCEPT !.heap = Append(@, withid)], Len(st.heap) + 1, "ok")

\* wrapper, up to the call of fn: the cache is created if it is missing, and
\* reading _cache_last_updated[key] enters the key
Entered(st, key) ==
    IF st.clock.last_run = 0 THEN st
    ELSE IF st.cache = <<>> THEN [st EXCEPT !.cache = <<[value |-> <<>>, updated |-> <<>>]>>]
    ELSE [st EXCEPT !.cache[1].updated = DictSet(@, key, DefaultGet(@, key))]

\* wrapper: update
Update(st, key) ==
    \/ st.cache = <<>>
    \/ Outdated(DefaultGet(st.cache[1].updated, key), st.clock.last_run)

\* wrapper, from the return of fn on; r is the outcome of fn on Entered(st, key)
Wrapped(st, key, r) ==
    IF st.clock.last_run = 0 THEN r
    ELSE IF ~Update(st, key)
    THEN Result(Entered(st, key), st.cache[1].value[key], "ok")
    ELSE IF r.err # "ok" THEN r
    ELSE Result([r.st EXCEPT !.cache[1].value = DictSet(@, key, r.obj),
                             !.cache[1].updated = DictSet(@, key, st.clock.now)],
                r.obj, "ok")

\* self.task_data(task)
task_data_cached(st, attrs, t) ==
    Wrapped(st, CacheKey("task_data", t),
            task_data_body(Entered(st, CacheKey("task_data", t)), attrs, t))

\* for child in task.tasks: data['subtasks'].append(self.task_data(child))
RECURSIVE AppendChildren(_, _, _, _)
AppendChildren(st, attrs, data, children) ==
    IF children = <<>> THEN Result(st, data, "ok")
    ELSE LET r == task_data_cached(st, attrs, Head(children))
         IN  IF r.err # "ok" THEN r
             ELSE AppendChildren(
                      [r.st EXCEPT !.heap[data] =
                          DictSet(@, "subtasks", Append(@["subtasks"], r.obj))],
                      attrs, data, Tail(children))

\* the body of task_and_children_data: the dict task_data returned gets the
\* key subtasks before task.tasks is read, and the AttributeError of a task
\* without tasks is caught
task_and_children_data_body(st, attrs, t) ==
    LET r == task_data_cached(st, attrs, t)
    IN  IF r.err # "ok" THEN r
        ELSE LET st1 == [r.st EXCEPT !.heap[r.obj] = DictSet(@, "subtasks", <<>>)]
             IN  IF attrs[t].tasks = <<>>
                 THEN Result(st1, r.obj, "ok")
                 ELSE AppendChildren(st1, attrs, r.obj, attrs[t].tasks[1])

\* self.task_and_children_data(task)
task_and_children_data_cached(st, attrs, t) ==
    Wrapped(st, CacheKey("task_and_children_data", t),
            task_and_children_data_body(
                Entered(st, CacheKey("task_and_children_data", t)), attrs, t))

\* for task in self.iter_tasks(): data[task_data['id']] = task_data
RECURSIVE CollectTasks(_, _, _, _)
CollectTasks(st, attrs, data, tasks) ==
    IF tasks = <<>> THEN Result(st, data, "ok")
    ELSE LET r == task_data_cached(st, attrs, Head(tasks))
         IN  IF r.err # "ok" THEN r
             ELSE IF "id" \notin DOMAIN r.st.heap[r.obj]
             THEN Result(r.st, data, "KeyError")
             ELSE CollectTasks(
                      [r.st EXCEPT !.heap[data] = DictSet(@, r.st.heap[r.obj]["id"], r.obj)],
                      attrs, data, Tail(tasks))

\* the body of all_tasks_data
all_tasks_data_body(st, attrs, tasks) ==
    CollectTasks([st EXCEPT !.heap = Append(@, <<>>)], attrs, Len(st.heap) + 1, tasks)

\* self.all_tasks_data()
all_tasks_data_cached(st, attrs, tasks) ==
    Wrapped(st, CacheKey("all_tasks_data", "-"),
            all_tasks_data_body(Entered(st, CacheKey("all_tasks_data", "-")), attrs, tasks))

\* iter_tasks: the tasks of the engine's buckets, one after the other
ManagedTasks == {<<>>, <<"t1">>, <<"t1", "t2">>}

\* an engine with its tasks, the cache not created and no progress run
InitData ==
    /\ task_attrs \in TaskObjects
    /\ managed \in ManagedTasks
    /\ heap = <<>>
    /\ dcache = <<>>
    /\ dclock = [now |-> 1, last_run |-> 0]
    /\ dcalls = <<>>

\* the state a call works on
DataState == [heap |-> heap, cache |-> dcache, clock |-> dclock]

\* a call returns or raises: the state it left is kept, and the call is
\* entered in the history with the dict it returned
Returned(fn, t, r) ==
    /\ heap' = r.st.heap
    /\ dcache' = r.st.cache
    /\ dcalls' = LET h == Append(dcalls,
                              [fn |-> fn, task |-> t, err |-> r.err,
                               cached |-> dclock.last_run # 0,
                               last_run |-> dclock.last_run,
                               data |-> IF r.err = "ok" THEN <<r.st.heap[r.obj]>> ELSE <<>>])
                 IN  IF Len(h) > 2 THEN Tail(h) ELSE h
    /\ UNCHANGED <<task_attrs, managed, dclock>>

\* time passes
DataTick ==
    /\ dclock.now < MaxTime
    /\ dclock' = [dclock EXCEPT !.now = @ + 1]
    /\ UNCHANGED <<task_attrs, managed, heap, dcache, dcalls>>
    /\ UNCHANGED outsideData

\* a perform cycle completes: self._progress_last_run = time.time()
DataProgress ==
    /\ dclock.last_run # dclock.now
    /\ dclock' = [dclock EXCEPT !.last_run = dclock.now]
    /\ UNCHANGED <<task_attrs, managed, heap, dcache, dcalls>>
    /\ UNCHANGED outsideData

\* bg.task_data(t)
CallTaskData(t) ==
    /\ Len(heap) < MaxDicts
    /\ Returned("task_data", t, task_data_cached(DataState, task_attrs, t))
    /\ UNCHANGED outsideData

\* bg.task_and_children_data(t)
CallTaskAndChildrenData(t) ==
    /\ Len(heap) < MaxDicts
    /\ Returned("task_and_children_data", t,
                task_and_children_data_cached(DataState, task_attrs, t))
    /\ UNCHANGED outsideData

\* bg.all_tasks_data()
CallAllTasksData ==
    /\ Len(heap) < MaxDicts
    /\ Returned("all_tasks_data", "-", all_tasks_data_cached(DataState, task_attrs, managed))
    /\ UNCHANGED outsideData

NextData ==
    \/ DataTick
    \/ DataProgress
    \/ \E t \in Tasks : CallTaskData(t)
    \/ \E t \in Tasks : CallTaskAndChildrenData(t)
    \/ CallAllTasksData

InitInformation ==
    /\ InitEngine
    /\ IdleWorkflow
    /\ IdleBatches
    /\ IdleTiles
    /\ IdleFiles
    /\ IdlePlates
    /\ IdleLogging
    /\ IdleConfig
    /\ InitData
    /\ IdleCorilla

SpecData == InitInformation /\ [][NextData]_vars

\* the latest call
LatestCall == dcalls[Len(dcalls)]

\* C22: task_and_children_data(task) returns task_data(task) extended with
\* a subtasks list that holds the task_data of each child when the task has
\* children, and a mapping without the key subtasks when it has none.
C22_SubtasksOnlyWithChildren ==
    (/\ dcalls # <<>>
     /\ LatestCall.fn = "task_and_children_data"
     /\ LatestCall.err = "ok")
    => IF task_attrs[LatestCall.task].tasks # <<>>
       THEN /\ "subtasks" \in DOMAIN LatestCall.data[1]
            /\ Len(LatestCall.data[1]["subtasks"]) = Len(task_attrs[LatestCall.task].tasks[1])
       ELSE "subtasks" \notin DOMAIN LatestCall.data[1]

\* C23: for every set of managed tasks, all_tasks_data() returns without
\* error a mapping with one entry per managed task, under the task's id and
\* holding its task_data, whether or not the tasks carry a persistent
\* identifier.
C23_AllTasksData ==
    (dcalls # <<>> /\ LatestCall.fn = "all_tasks_data")
    => /\ LatestCall.err = "ok"
       /\ Cardinality(DOMAIN LatestCall.data[1]) = Len(managed)
       /\ \A i \in DOMAIN managed :
              task_attrs[managed[i]].persistent_id # <<>> =>
                  /\ str(task_attrs[managed[i]].persistent_id[1]) \in DOMAIN LatestCall.data[1]
                  /\ heap[LatestCall.data[1][str(task_attrs[managed[i]].persistent_id[1])]]["name"]
                         = managed[i]

\* C30: within one progress cycle, task_data(t) called after
\* task_and_children_data(t) returns a mapping without the key subtasks, as
\* it does before.
C30_TaskDataUndisturbed ==
    (/\ Len(dcalls) = 2
     /\ dcalls[1].fn = "task_and_children_data" /\ dcalls[1].err = "ok"
     /\ dcalls[2].fn = "task_data" /\ dcalls[2].err = "ok"
     /\ dcalls[2].task = dcalls[1].task
     /\ dcalls[2].last_run = dcalls[1].last_run)
    => "subtasks" \notin DOMAIN dcalls[2].data[1]

(***************************************************************************)
(* WorkflowDescription(type) with the stages omitted, on the workflow      *)
(* component: a stage is built for every name of STAGES, with the steps    *)
(* of its STEPS_PER_STAGE entry, and added with add_stage.                 *)
(***************************************************************************)
\* the loop of WorkflowDescription(type) over the declared stage names
RECURSIVE AddDeclaredStages(_, _, _)
AddDeclaredStages(deps, stages_, names) ==
    IF names = <<>> THEN Ok(stages_)
    ELSE LET name == Head(names)
         IN  IF name \notin DOMAIN deps.STAGE_MODES
             THEN Raise("KeyError", stages_)
             ELSE LET stage == WorkflowStageDescription(
                                   deps, name, deps.STAGE_MODES[name], TRUE, <<>>)
                  IN  IF stage.err # "ok" THEN Raise(stage.err, stages_)
                      ELSE LET added == add_stage(deps, stages_, stage.val)
                           IN  IF added.err # "ok" THEN added
                               ELSE AddDeclaredStages(deps, added.val, Tail(names))

\* WorkflowDescription(type): its stage list, or the exception of the first
\* stage that is rejected
WorkflowDescriptionOfType(deps) == AddDeclaredStages(deps, <<>>, deps.STAGES)

\* workflow = WorkflowDescription(type); the name keeps the description it
\* was bound to when the constructor raises
ConstructOfType ==
    LET built == WorkflowDescriptionOfType(dependencies)
    IN  /\ stages' = IF built.err = "ok" THEN built.val ELSE stages
        /\ raised' = built.err
        /\ lastcall' = [op |-> "WorkflowDescription", name |-> "-",
                        stage |-> "-", at |-> 0, pre |-> Names(stages)]
        /\ copy' = <<>>
        /\ UNCHANGED <<dependencies, draft>>
        /\ UNCHANGED outsideWorkflow

\* descriptions built from the declaration, and stages and steps added to
\* them afterwards
NextOfType ==
    \/ ConstructOfType
    \/ \E name \in StageNames : NewStage(name, "sequential", TRUE, <<>>)
    \/ \E i \in 1..2, step \in DefaultSteps : AddStepToStage(i, step)
    \/ AddStage

SpecOfType == InitDescription /\ [][NextOfType]_vars

\* the declared order of the stages and of the steps of every stage agrees
\* with the declared dependencies: nothing is required upstream by what is
\* declared before it
DeclaredInOrder(deps) ==
    /\ \A i, j \in DOMAIN deps.STAGES :
           (i < j /\ deps.STAGES[i] \in DOMAIN deps.INTER_STAGE_DEPENDENCIES)
               => deps.STAGES[j] \notin deps.INTER_STAGE_DEPENDENCIES[deps.STAGES[i]]
    /\ \A n \in DOMAIN deps.STEPS_PER_STAGE :
           LET steps == deps.STEPS_PER_STAGE[n]
           IN  \A i, j \in DOMAIN steps :
                   (i <= j /\ steps[i] \in DOMAIN deps.INTRA_STAGE_DEPENDENCIES)
                       => steps[j] \notin deps.INTRA_STAGE_DEPENDENCIES[steps[i]]

\* the stage list has one stage per STAGES entry in declared order, active
\* and in the declared mode, with one active step of default arguments per
\* entry of the stage's STEPS_PER_STAGE list, in declared order
DeclaredStages(deps, stages_) ==
    /\ Names(stages_) = deps.STAGES
    /\ \A i \in DOMAIN stages_ :
           LET stage == stages_[i]
               steps == deps.STEPS_PER_STAGE[stage.name]
           IN  /\ stage.active
               /\ stage.mode = deps.STAGE_MODES[stage.name]
               /\ Names(stage.steps) = steps
               /\ \A j \in DOMAIN stage.steps :
                      stage.steps[j] =
                          WorkflowStepDescription(steps[j], TRUE, <<>>, <<>>, <<>>)

(***************************************************************************)
(* C24: for every dependency declaration (here: every one whose declared   *)
(* order of stages and steps agrees with its dependencies),                *)
(* WorkflowDescription(type) with the stages omitted succeeds and yields   *)
(* one stage per STAGES entry, in declared order, active and in the mode   *)
(* of STAGE_MODES, each with one active step per entry of its              *)
(* STEPS_PER_STAGE list, in declared order, with default arguments.        *)
(***************************************************************************)
C24_DeclaredStagesByDefault ==
    (lastcall.op = "WorkflowDescription" /\ DeclaredInOrder(dependencies))
        => /\ raised = "ok"
           /\ DeclaredStages(dependencies, stages)

(***************************************************************************)
(* C28: add_stage fails for the documented rejections only: when           *)
(* INTER_STAGE_DEPENDENCIES has entries only for the stages that have      *)
(* upstream requirements, add_stage of a declared stage that is not        *)
(* present, whose steps are declared, whose required upstream stages are   *)
(* present and that no present stage requires upstream, to a workflow      *)
(* that holds a stage without an INTER_STAGE_DEPENDENCIES entry, succeeds  *)
(* and appends the stage.                                                  *)
(***************************************************************************)
C28_OnlyDocumentedRejections ==
    (/\ lastcall.op = "add_stage"
     /\ \A k \in DOMAIN dependencies.INTER_STAGE_DEPENDENCIES :
            dependencies.INTER_STAGE_DEPENDENCIES[k] # {}
     /\ lastcall.name \in Range(dependencies.STAGES)
     /\ lastcall.name \notin Range(lastcall.pre)
     /\ \E i \in DOMAIN lastcall.pre :
            lastcall.pre[i] \notin DOMAIN dependencies.INTER_STAGE_DEPENDENCIES
     /\ \A i \in DOMAIN lastcall.pre : ~Requires(lastcall.pre[i], lastcall.name)
     /\ ~MissesUpstream(lastcall.name, lastcall.pre))
        => /\ raised = "ok"
           /\ Names(stages) = Append(lastcall.pre, lastcall.name)

(***************************************************************************)
(* add_stage and add_step called with an argument of another type: the     *)
(* isinstance test is the first statement of both methods.                 *)
(***************************************************************************)
\* workflow.add_stage(x) for an x that is no WorkflowStageDescription
AddStageOfWrongType ==
    /\ raised' = "TypeError"
    /\ lastcall' = [op |-> "add_stage", name |-> "not a stage",
                    stage |-> "-", at |-> 0, pre |-> Names(stages)]
    /\ copy' = <<>>
    /\ UNCHANGED <<dependencies, stages, draft>>
    /\ UNCHANGED outsideWorkflow

\* workflow.stages[i].add_step(x) for an x that is no WorkflowStepDescription
AddStepOfWrongType(i) ==
    /\ i \in DOMAIN stages
    /\ raised' = "TypeError"
    /\ lastcall' = [op |-> "add_step", name |-> "not a step",
                    stage |-> stages[i].name, at |-> i,
                    pre |-> Names(stages[i].steps)]
    /\ copy' = <<>>
    /\ UNCHANGED <<dependencies, stages, draft>>
    /\ UNCHANGED outsideWorkflow

NextCalls ==
    \/ NextWorkflow
    \/ AddStageOfWrongType
    \/ \E i \in 1..2 : AddStepOfWrongType(i)

SpecCalls == InitDescription /\ [][NextCalls]_vars

\* seq with one element appended, whose name is the given one
Appended(seq, after, name) ==
    /\ Len(after) = Len(seq) + 1
    /\ SubSeq(after, 1, Len(seq)) = seq
    /\ after[Len(after)].name = name

\* the stage with one step of the given name appended and nothing else
\* changed
StepAppended(stage, after, name) ==
    /\ Appended(stage.steps, after.steps, name)
    /\ after = [stage EXCEPT !.steps = after.steps]

\* what a call of add_stage or add_step changes
CallFrame ==
    lastcall'.op \in {"add_stage", "add_step"} =>
        IF raised' # "ok"
        THEN stages' = stages /\ draft' = draft
        ELSE IF lastcall'.op = "add_stage"
        THEN /\ stages' = Append(stages, draft[1])
             /\ lastcall'.name = draft[1].name
        ELSE IF lastcall'.at = 0
        THEN /\ stages' = stages
             /\ StepAppended(draft[1], draft'[1], lastcall'.name)
        ELSE /\ draft' = draft
             /\ DOMAIN stages' = DOMAIN stages
             /\ \A i \in DOMAIN stages :
                    IF i = lastcall'.at
                    THEN StepAppended(stages[i], stages'[i], lastcall'.name)
                    ELSE stages'[i] = stages[i]

(***************************************************************************)
(* C27: a rejected add_stage or add_step call (unknown or duplicate name,  *)
(* step not declared for the stage, violated stage order, missing          *)
(* upstream step, wrong argument type) leaves the stage list of the        *)
(* workflow and the step list of every stage as they were, and a           *)
(* successful call changes nothing except that it appends the new element  *)
(* at the end.                                                             *)
(***************************************************************************)
C27_RejectedCallsChangeNothing == [][CallFrame]_vars

\* add_step on the second stage of the workflow was rejected for a missing
\* upstream step, and the stage holds the steps it held before
C27_Witness ==
    /\ lastcall.op = "add_step"
    /\ lastcall.at = 2
    /\ raised = "WorkflowDescriptionError"
    /\ MissesUpstreamStep(lastcall.name, lastcall.pre)
    /\ Len(stages) = 2
    /\ Names(stages[2].steps) = lastcall.pre

(***************************************************************************)
(* C25: every run job description that create_batches produces lists at    *)
(* most batch_size mapping record ids, except a job that lists the         *)
(* records of a single site that has more than batch_size records.         *)
(***************************************************************************)
C25_AtMostBatchSizeRecords ==
    \A i \in DOMAIN job_descriptions.run :
        LET listed == ListedIn(job_descriptions.run[i])
        IN  \/ Cardinality(listed) <= cb_args.batch_size
            \/ Cardinality({mappings[id] : id \in listed}) = 1

(***************************************************************************)
(* IllumstatsCalculator.create_batches (src/tmlib/workflow/corilla/api.py):*)
(* one run job for every cycle and channel that have channel image files.  *)
(* cor_db holds the rows of the three tables in the order the queries      *)
(* return them; a channel image file refers to a cycle and a channel of    *)
(* the experiment by its foreign keys.                                     *)
(***************************************************************************)
CycleIds == {1, 2}

ChannelIds == {1, 2}

\* the locations of channel image files
Locations == {"p", "q"}

\* the rows a query of a table may return: some of the ids, in any order
Rows(ids) ==
    {rows \in UNION {[1..n -> ids] : n \in 0..Cardinality(ids)} : Distinct(rows)}

\* the rows of channel_image_files for the given cycles and channels
ChannelImageFileRows(cycle_ids, channel_ids) ==
    UNION {{rows \in [1..n -> [id : 1..n, cycle_id : cycle_ids,
                               channel_id : channel_ids, location : Locations]] :
                \A k \in 1..n : rows[k].id = k} : n \in 0..MaxFiles}

\* the databases of an experiment
Databases ==
    UNION {{[cycles |-> cycles_, channels |-> channels_, channel_image_files |-> files] :
                files \in ChannelImageFileRows(Range(cycles_), Range(channels_))} :
               cycles_ \in Rows(CycleIds), channels_ \in Rows(ChannelIds)}

\* the rows whose column has the value, in the order of rows
RECURSIVE Where(_, _, _)
Where(rows, column, value) ==
    IF rows = <<>> THEN <<>>
    ELSE IF Head(rows)[column] = value
    THEN <<Head(rows)>> \o Where(Tail(rows), column, value)
    ELSE Where(Tail(rows), column, value)

\* [f for f in cycle.channel_image_files if f.channel_id == channel.id]
FilesOf(db, cycle, channel) ==
    Where(Where(db.channel_image_files, "cycle_id", cycle), "channel_id", channel)

\* create_batches(args) is entered for some database
InitCorilla ==
    /\ cor_db \in Databases
    /\ cor_count = 0
    /\ cor_jobs = <<>>
    /\ cor_pc = [at |-> "enter", i |-> 0, j |-> 0]

\* where the two loops go on after the channel j of the cycle i
Advance(db, i, j) ==
    IF j < Len(db.channels) THEN [at |-> "loop", i |-> i, j |-> j + 1]
    ELSE IF i < Len(db.cycles) /\ db.channels # <<>>
    THEN [at |-> "loop", i |-> i + 1, j |-> 1]
    ELSE [at |-> "done", i |-> 0, j |-> 0]

\* the loops are entered: at the first channel of the first cycle, or past
\* the loops when a query returns no row
CorillaEnter ==
    /\ cor_pc.at = "enter"
    /\ cor_pc' = IF cor_db.cycles = <<>> THEN [at |-> "done", i |-> 0, j |-> 0]
                 ELSE Advance(cor_db, 1, 0)
    /\ UNCHANGED <<cor_db, cor_count, cor_jobs>>
    /\ UNCHANGED outsideCorilla

\* the job description of the files of a cycle and a channel
RunJobOf(count, files, cycle, channel) ==
    [id |-> count,
     inputs |-> [channel_image_files |-> [k \in DOMAIN files |-> files[k].location]],
     channel_image_files_ids |-> [k \in DOMAIN files |-> files[k].id],
     channel_id |-> channel,
     cycle_id |-> cycle]

\* the body of the inner loop without the test for files
CorillaPairAlways ==
    /\ cor_pc.at = "loop"
    /\ LET cycle == cor_db.cycles[cor_pc.i]
           channel == cor_db.channels[cor_pc.j]
           files == FilesOf(cor_db, cycle, channel)
       IN  /\ cor_count' = cor_count + 1
           /\ cor_jobs' = Append(cor_jobs, RunJobOf(cor_count + 1, files, cycle, channel))
    /\ cor_pc' = Advance(cor_db, cor_pc.i, cor_pc.j)
    /\ UNCHANGED cor_db
    /\ UNCHANGED outsideCorilla

\* the body of the inner loop for one cycle and one channel
CorillaPair ==
    /\ cor_pc.at = "loop"
    /\ LET cycle == cor_db.cycles[cor_pc.i]
           channel == cor_db.channels[cor_pc.j]
           files == FilesOf(cor_db, cycle, channel)
       IN  IF files = <<>>
           THEN UNCHANGED <<cor_count, cor_jobs>>
           ELSE /\ cor_count' = cor_count + 1
                /\ cor_jobs' = Append(cor_jobs, RunJobOf(cor_count + 1, files, cycle, channel))
    /\ cor_pc' = Advance(cor_db, cor_pc.i, cor_pc.j)
    /\ UNCHANGED cor_db
    /\ UNCHANGED outsideCorilla

NextCorilla ==
    \/ CorillaEnter
    \/ CorillaPair

\* create_batches is entered, nothing else in use
InitIllumstats ==
    /\ InitEngine
    /\ IdleWorkflow
    /\ IdleBatches
    /\ IdleTiles
    /\ IdleFiles
    /\ IdlePlates
    /\ IdleLogging
    /\ IdleConfig
    /\ IdleData
    /\ InitCorilla

SpecCorilla == InitIllumstats /\ [][NextCorilla]_vars

\* the jobs that carry the cycle and the channel
JobsOf(cycle, channel) ==
    {k \in DOMAIN cor_jobs :
        cor_jobs[k].cycle_id = cycle /\ cor_jobs[k].channel_id = channel}

\* the places at which a job lists the id
Listing(job, id) ==
    {k \in DOMAIN job.channel_image_files_ids : job.channel_image_files_ids[k] = id}

(***************************************************************************)
(* C26: create_batches returns one run job for every cycle and channel     *)
(* that have a channel image file and none for the others; the id of       *)
(* every channel image file is listed once, by the job of its cycle_id     *)
(* and channel_id, and by no other job; the input locations of a job are   *)
(* the locations of the files it lists, in the same order; the job ids     *)
(* are 1..N.                                                               *)
(***************************************************************************)
C26_OneJobPerCycleAndChannel ==
    cor_pc.at = "done" =>
        LET files == cor_db.channel_image_files
        IN  /\ \A cycle \in CycleIds, channel \in ChannelIds :
                   Cardinality(JobsOf(cycle, channel)) =
                       IF \E k \in DOMAIN files :
                              files[k].cycle_id = cycle /\ files[k].channel_id = channel
                       THEN 1 ELSE 0
            /\ \A k \in DOMAIN cor_jobs :
                   /\ cor_jobs[k].cycle_id \in Range(cor_db.cycles)
                   /\ cor_jobs[k].channel_id \in Range(cor_db.channels)
            /\ \A f \in DOMAIN files : \A k \in DOMAIN cor_jobs :
                   Cardinality(Listing(cor_jobs[k], files[f].id)) =
                       IF k \in JobsOf(files[f].cycle_id, files[f].channel_id)
                       THEN 1 ELSE 0
            /\ \A k \in DOMAIN cor_jobs :
                   LET ids == cor_jobs[k].channel_image_files_ids
                       inputs == cor_jobs[k].inputs.channel_image_files
                   IN  /\ DOMAIN inputs = DOMAIN ids
                       /\ \A n \in DOMAIN ids : \E f \in DOMAIN files :
                              files[f].id = ids[n] /\ files[f].location = inputs[n]
            /\ \A k \in DOMAIN cor_jobs : cor_jobs[k].id = k

\* the call returned two jobs for two cycles and two channels: one of two
\* files at different locations, and two pairs have no file
C26_Witness ==
    /\ cor_pc.at = "done"
    /\ Len(cor_db.cycles) = 2
    /\ Len(cor_db.channels) = 2
    /\ Len(cor_jobs) = 2
    /\ \E k \in DOMAIN cor_jobs :
           /\ Len(cor_jobs[k].channel_image_files_ids) = 2
           /\ cor_jobs[k].inputs.channel_image_files[1] #
                  cor_jobs[k].inputs.channel_image_files[2]

(***************************************************************************)
(* IllumstatsCalculator.run_job reads file.get(z=z) for every z of         *)
(* xrange(file.n_planes) of every file of its batch.                       *)
(***************************************************************************)
\* the plane indices run_job asks the file for
PlanesAsked == 0..(_n_planes - 1)

\* the planes run_job asks for and the file does not hold: get(z) fails
PlanesNotFound == {z \in PlanesAsked : DatasetName(z) \notin DatasetNames}

\* the datasets of the file run_job does not ask for
PlanesNotRead == DatasetNames \ {DatasetName(z) : z \in PlanesAsked}

(***************************************************************************)
(* C29: after any sequence of put(image) and put(image, z) calls the plane *)
(* datasets of the file are exactly z_0 .. z_(n_planes-1): run_job finds   *)
(* every plane it asks for and reads every stored plane.                   *)
(***************************************************************************)
C29_PlanesContiguous ==
    /\ DatasetNames = {DatasetName(z) : z \in PlanesAsked}
    /\ PlanesNotFound = {}
    /\ PlanesNotRead = {}

=============================================================================
